---- MODULE Spec2Model ----
(***************************************************************************)
(* The legacy-device control layer of the network assistant: the PTCL      *)
(* router adapter (src/lib/adapters/ptcl.ts), its HTTP client and the      *)
(* router's administration console it talks to.                            *)
(*                                                                         *)
(* An adapter call is a small process: it is invoked, issues GET and POST  *)
(* requests, receives the device's answers and ends in a result.  Each     *)
(* await of the code is a step boundary; everything the code does between  *)
(* two awaits is one action.                                               *)
(***************************************************************************)
EXTENDS Integers, Sequences, FiniteSets, TLC

\* Number of adapter calls a behaviour makes.
MaxCalls == 2
\* Number of menu links on the router's root page (crawlRouterLinks).
NumLinks == 2
\* Number of HTTP requests the browser sends to the application's routes.
MaxRequests == 3
\* Number of successful logins, each of which gets a session of its own.
MaxLogins == 2
\* Number of requests the adapter of one route handler sends to the device.
MaxOps == 2
\* Number of tool handlers the agent runs.
MaxToolRuns == 3
\* Number of times the agent graph goes through its tools node.
MaxRounds == 1

VARIABLES device, calls, ncalls, browser, router, handlers, nreqs, storeEvent,
          toolRun, stream

\* the adapter and the device's settings
adapterVars == <<device, calls, ncalls>>

\* the session: the browser's router_session cookie, the sessions the device
\* has issued and still accepts, the route handlers in progress, the requests
\* sent so far and the last change of the cookie (saved by a login, cleared by
\* a logout or by a failed revalidation)
sessionVars == <<browser, router, handlers, nreqs, storeEvent>>

\* the chat agent: the tool handler that ran last, and the event generator
agentVars == <<toolRun, stream>>

vars == <<device, calls, ncalls, browser, router, handlers, nreqs, storeEvent, toolRun,
          stream>>

Calls == {"c1", "c2"}

(***************************************************************************)
(* JavaScript value helpers                                                *)
(***************************************************************************)
EmptyForm == [k \in {} |-> ""]

Has(o, k) == k \in DOMAIN o

\* o.k ?? d
Nullish(o, k, d) == IF Has(o, k) THEN o[k] ELSE d

\* a || d on strings: the empty string is falsy
OrStr(a, d) == IF a = "" THEN d ELSE a

\* options.k || d, where an absent option is undefined
OptOr(o, k, d) == IF Has(o, k) THEN OrStr(o[k], d) ELSE d

\* $('input[name="n"]').val() as string: undefined when the page has no such input
Val(form, name) == IF name \in DOMAIN form THEN form[name] ELSE ""

\* the characters of a string given as a sequence of one-character strings
RECURSIVE Str(_)
Str(cs) == IF cs = <<>> THEN "" ELSE Head(cs) \o Str(Tail(cs))

Digits == {"0", "1", "2", "3", "4", "5", "6", "7", "8", "9"}

HexDigits == Digits \cup {"A", "B", "C", "D", "E", "F", "a", "b", "c", "d", "e", "f"}

UpperChar(ch) ==
    CASE ch = "a" -> "A" [] ch = "b" -> "B" [] ch = "c" -> "C"
      [] ch = "d" -> "D" [] ch = "e" -> "E" [] ch = "f" -> "F"
      [] OTHER -> ch

toUpperCase(cs) == [i \in 1..Len(cs) |-> UpperChar(cs[i])]

(***************************************************************************)
(* The router console: pages and forms                                     *)
(***************************************************************************)
WIRELESS == "/cgi-bin/home_wireless.asp"
LAN == "/cgi-bin/home_lan.asp"
WAN == "/cgi-bin/home_wan.asp"
QOS == "/cgi-bin/adv_qos.asp"
DDNS == "/cgi-bin/access_ddns.asp"
VIRSVR == "/cgi-bin/adv_nat_virsvr.asp"
IPFILTER == "/cgi-bin/access_ipfilter.asp"
ADMIN == "/cgi-bin/tools_admin.asp"
SYSTEM == "/cgi-bin/tools_system.asp"
ARP == "/cgi-bin/arp.asp"
DHCPINFO == "/cgi-bin/dhcpinfo.asp"
DEVICEINFO == "/cgi-bin/status_deviceinfo.asp"
WANINFO == "/cgi-bin/wan.asp"
WIFISTATUS == "/cgi-bin/status_wifi.asp"
XDSL == "/cgi-bin/xdsl.asp"

\* The settings forms whose stored values the model tracks.
FormPages == {WIRELESS, LAN, WAN, QOS, DDNS}

\* What the firmware ships with; also what it falls back to for a form field
\* that a POST leaves out.
FirmwareWireless ==
    [wlan_APenable |-> "1", ESSID |-> "PTCL-BB", ESSID_HIDE_Selection |-> "0",
     ESSID_Enable_Selection |-> "1", Channel_ID |-> "0", WirelessMode |-> "9",
     WEP_Selection |-> "WPA2PSK", PreSharedKey1 |-> "ptclptcl",
     wlanWEPFlag |-> "3", SSID_INDEX |-> "0", Is11nMode |-> "1",
     BeaconInterval |-> "100", RTSThreshold |-> "2347",
     FragmentThreshold |-> "2346", DTIM |-> "1", StationNum |-> "0"]

FirmwareLan ==
    [uiViewIPAddr |-> "192.168.10.1", uiViewNetMask |-> "255.255.255.0",
     uiViewAliasIPAddr |-> "192.168.2.1", uiViewAliasNetMask |-> "255.255.255.0",
     dhcpTypeRadio |-> "1", StartIp |-> "192.168.10.2", PoolSize |-> "250",
     dhcp_LeaseTime |-> "86400", dnsTypeRadio |-> "0", PrimaryDns |-> "N/A",
     SecondDns |-> "N/A", dhcpFlag |-> "0", lanFlag |-> "0",
     aliasFlag |-> "Yes", DNSproxy |-> "Yes"]

FirmwareWan ==
    [wan_PPPUsername |-> "user", wan_PPPPassword |-> "pass", wanTypeRadio |-> "2",
     wan_NAT0 |-> "Enable", wan_TCPMTU0 |-> "1492", wan_vid |-> "0"]

FirmwareQos ==
    [Qos_active |-> "No", Qosdiscipline |-> "SP", qoSOptType |-> "discRule",
     QOS_Flag |-> "4", QosWRRweight1 |-> "8", QosWRRweight2 |-> "4",
     QosWRRweight3 |-> "2", QosWRRweight4 |-> "1"]

FirmwareDdns ==
    [Enable_DyDNS |-> "No", ddns_ServerName |-> "dyndns", sysDNSHost |-> "",
     sysDNSUser |-> "", sysDNSPassword |-> "", Enable_Wildcard |-> "No"]

FirmwareDefault ==
    (WIRELESS :> FirmwareWireless) @@ (LAN :> FirmwareLan) @@ (WAN :> FirmwareWan)
        @@ (QOS :> FirmwareQos) @@ (DDNS :> FirmwareDdns)

\* The fields of the QoS rule form, which shares its page with the discipline form.
QosRuleFields ==
    {"QosRuleIndex", "QosRuleActive", "QosProtocol", "QosSrcIpValue", "QosDestIpValue",
     "QosSrcPortValue1", "QosDestPortValue1", "QosIPPValue1"}

\* A household that configured its router: the access point is switched off,
\* a fixed channel, a DHCP relay, its own DNS servers, weighted round robin.
CustomDevice ==
    (WIRELESS :> [FirmwareWireless EXCEPT !.wlan_APenable = "0", !.ESSID = "Home",
                     !.Channel_ID = "6", !.WirelessMode = "4",
                     !.PreSharedKey1 = "homesecret", !.BeaconInterval = "200",
                     !.wlanWEPFlag = "1"])
    @@ (LAN :> [FirmwareLan EXCEPT !.dhcpTypeRadio = "2", !.dnsTypeRadio = "1",
                     !.PrimaryDns = "8.8.8.8", !.dhcpFlag = "1", !.DNSproxy = "No"])
    @@ (WAN :> [FirmwareWan EXCEPT !.wan_PPPUsername = "home", !.wan_TCPMTU0 = "1400"])
    @@ (QOS :> [FirmwareQos EXCEPT !.Qos_active = "Yes", !.Qosdiscipline = "WRR",
                     !.QosWRRweight1 = "5"])
    @@ (DDNS :> [FirmwareDdns EXCEPT !.Enable_DyDNS = "Yes", !.sysDNSHost = "home.dyn",
                     !.sysDNSUser = "me", !.sysDNSPassword = "pw"])

\* The device of the end-to-end example: ssid Home, channel 6, access point on.
ExampleDevice ==
    [FirmwareDefault EXCEPT ![WIRELESS] =
        [FirmwareWireless EXCEPT !.ESSID = "Home", !.Channel_ID = "6"]]

InitialDevices == {FirmwareDefault, CustomDevice, ExampleDevice}

\* The device stores a submitted form: a field the body leaves out falls back
\* to the firmware default; fields the form does not have (buttons) are ignored.
ApplyForm(path, stored, body) ==
    [k \in DOMAIN stored |->
        IF k \in DOMAIN body THEN body[k] ELSE FirmwareDefault[path][k]]

\* Which stored form a POST addresses: the QoS page holds the discipline form
\* and the rule form, told apart by the submit button.
TargetsStoredForm(path, body) ==
    /\ path \in FormPages
    /\ path = QOS => "Qosdisciplinesave" \in DOMAIN body

(***************************************************************************)
(* The HTTP client (axios instance of the adapter)                         *)
(***************************************************************************)
\* What the device or the network does with one request.
Outcomes == {"ok", "s401", "s403", "s404", "s500", "redirLogin", "timeout"}

StatusOf(outcome) ==
    CASE outcome = "ok" -> 200
      [] outcome = "s401" -> 401
      [] outcome = "s403" -> 403
      [] outcome = "s404" -> 404
      [] outcome = "s500" -> 500
      [] outcome = "redirLogin" -> 302
      [] outcome = "blank" -> 200
      [] OTHER -> 0

validateStatus(status) == status < 500

\* The promise of client.get / client.post.  No maxRedirects is configured, so
\* a redirect is followed and the promise settles with the target's response:
\* the login page, status 200.  A status validateStatus refuses and a transport
\* failure reject the promise.
AxiosResponse(outcome) ==
    IF outcome = "timeout"
    THEN [rejected |-> TRUE, status |-> 0, kind |-> "none",
          message |-> "timeout of 10000ms exceeded"]
    ELSE IF outcome = "redirLogin"
    THEN [rejected |-> FALSE, status |-> 200, kind |-> "login", message |-> ""]
    ELSE IF ~validateStatus(StatusOf(outcome))
    THEN [rejected |-> TRUE, status |-> StatusOf(outcome), kind |-> "none",
          message |-> "Request failed with status code " \o ToString(StatusOf(outcome))]
    ELSE [rejected |-> FALSE, status |-> StatusOf(outcome),
          kind |-> IF outcome = "blank" THEN "blank"
                   ELSE IF StatusOf(outcome) = 200 THEN "page" ELSE "error",
          message |-> ""]

\* fetchPage: the body of a settled GET, or the error it throws.
fetchPage(outcome) ==
    LET r == AxiosResponse(outcome)
    IN  IF r.rejected
        THEN [threw |-> TRUE, message |-> r.message, kind |-> "none"]
        ELSE IF r.status = 401 \/ r.status = 403
        THEN [threw |-> TRUE, message |-> "Session expired", kind |-> "none"]
        ELSE [threw |-> FALSE, message |-> "", kind |-> r.kind]

(***************************************************************************)
(* Read operations: page parsers                                           *)
(***************************************************************************)
\* The form a fetched body carries: the settings page shows the stored form;
\* the login page, an error page and a page of another layout ("blank") carry
\* none of its inputs.
PageForm(kind, stored) == IF kind = "page" THEN stored ELSE EmptyForm

\* getWirelessSettings, after its fetch: the snapshot parsed from the page.
ParseWirelessSettings(form) ==
    [ssid |-> OrStr(Val(form, "ESSID"), ""),
     enabled |-> Val(form, "wlan_APenable") = "1",
     channel |-> OrStr(Val(form, "Channel_ID"), "Auto"),
     security |-> OrStr(Val(form, "WEP_Selection"), "Unknown"),
     hiddenSsid |-> Val(form, "ESSID_HIDE_Selection") = "1"]

(***************************************************************************)
(* Write operations: the form each one builds                              *)
(***************************************************************************)
\* params[k] = v, set only under a condition
Put(cond, k, v) == IF cond THEN k :> v ELSE EmptyForm

\* if (options.k): the option is present and not the empty string
Truthy(o, k) == Has(o, k) /\ o[k] # ""

Built(path, body, message) ==
    [ok |-> TRUE, path |-> path, body |-> body, message |-> message]

Invalid(message) ==
    [ok |-> FALSE, path |-> "", body |-> EmptyForm, message |-> message]

\* The params literal of setWifiSettings.
WifiParams(options, currentSettings) ==
    [wlan_APenable |-> IF Has(options, "enabled") /\ options["enabled"] = FALSE
                       THEN "0" ELSE "1",
     ESSID |-> Nullish(options, "ssid", currentSettings.ssid),
     ESSID_HIDE_Selection |-> IF currentSettings.hiddenSsid THEN "1" ELSE "0",
     ESSID_Enable_Selection |-> "1",
     Channel_ID |-> IF Has(options, "channel") THEN ToString(options["channel"]) ELSE "0",
     WirelessMode |-> "9",
     WEP_Selection |-> OrStr(currentSettings.security, "WPA2PSK"),
     PreSharedKey1 |-> Nullish(options, "password", ""),
     wlanWEPFlag |-> "3", SSID_INDEX |-> "0", Is11nMode |-> "1",
     BeaconInterval |-> "100", RTSThreshold |-> "2347",
     FragmentThreshold |-> "2346", DTIM |-> "1", StationNum |-> "0"]

\* setWifiSettings without the lower bound on the password length.
setWifiSettingsNoMinLength(options, currentSettings) ==
    IF Has(options, "password") /\ Len(options["password"]) > 63
    THEN Invalid("Password must be at most 63 characters")
    ELSE Built(WIRELESS, WifiParams(options, currentSettings),
               "WiFi settings updated successfully")

\* setWifiSettings with the upper bound on the password length off by one.
setWifiSettingsMax64(options, currentSettings) ==
    IF Has(options, "password") /\ Len(options["password"]) < 8
    THEN Invalid("Password must be at least 8 characters")
    ELSE IF Has(options, "password") /\ Len(options["password"]) > 64
    THEN Invalid("Password must be at most 63 characters")
    ELSE Built(WIRELESS, WifiParams(options, currentSettings),
               "WiFi settings updated successfully")

\* setWifiSettings from the params literal to the POST: the password check
\* comes after the form is built and before it is sent.
setWifiSettings(options, currentSettings) ==
    IF Has(options, "password") /\ Len(options["password"]) < 8
    THEN Invalid("Password must be at least 8 characters")
    ELSE IF Has(options, "password") /\ Len(options["password"]) > 63
    THEN Invalid("Password must be at most 63 characters")
    ELSE Built(WIRELESS, WifiParams(options, currentSettings),
               "WiFi settings updated successfully")

\* setLanSettings from the extraction of the current values to the POST.
setLanSettings(options, form) ==
    LET currentIp == OrStr(Val(form, "uiViewIPAddr"), "192.168.10.1")
        currentMask == OrStr(Val(form, "uiViewNetMask"), "255.255.255.0")
        currentStartIp == OrStr(Val(form, "StartIp"), "192.168.10.2")
        currentPoolSize == OrStr(Val(form, "PoolSize"), "250")
        currentLeaseTime == OrStr(Val(form, "dhcp_LeaseTime"), "86400")
        currentAliasIp == OrStr(Val(form, "uiViewAliasIPAddr"), "192.168.2.1")
        currentAliasMask == OrStr(Val(form, "uiViewAliasNetMask"), "255.255.255.0")
        params ==
            [uiViewIPAddr |-> OptOr(options, "ipAddress", currentIp),
             uiViewNetMask |-> OptOr(options, "subnetMask", currentMask),
             uiViewAliasIPAddr |-> currentAliasIp,
             uiViewAliasNetMask |-> currentAliasMask,
             dhcpTypeRadio |-> IF Has(options, "dhcpEnabled") /\ options["dhcpEnabled"] = FALSE
                               THEN "0" ELSE "1",
             StartIp |-> OptOr(options, "dhcpStartIp", currentStartIp),
             PoolSize |-> IF Has(options, "dhcpPoolSize")
                          THEN OrStr(ToString(options["dhcpPoolSize"]), currentPoolSize)
                          ELSE currentPoolSize,
             dhcp_LeaseTime |-> IF Has(options, "dhcpLeaseTime")
                                THEN OrStr(ToString(options["dhcpLeaseTime"]), currentLeaseTime)
                                ELSE currentLeaseTime,
             dnsTypeRadio |-> "0", PrimaryDns |-> "N/A", SecondDns |-> "N/A",
             dhcpFlag |-> "0", lanFlag |-> "0", aliasFlag |-> "Yes", DNSproxy |-> "Yes"]
    IN  Built(LAN, params, "LAN settings updated successfully")

connectionTypeMap ==
    [dynamic |-> "0", static |-> "1", pppoe |-> "2", bridge |-> "3"]

setWanSettings(options) ==
    LET params ==
            ("SaveBtn" :> "Save")
            @@ Put(Truthy(options, "pppUsername"), "wan_PPPUsername",
                   Nullish(options, "pppUsername", ""))
            @@ Put(Truthy(options, "pppPassword"), "wan_PPPPassword",
                   Nullish(options, "pppPassword", ""))
            @@ Put(Truthy(options, "connectionType"), "wanTypeRadio",
                   IF Nullish(options, "connectionType", "") \in DOMAIN connectionTypeMap
                   THEN connectionTypeMap[options["connectionType"]] ELSE "2")
            @@ Put(Has(options, "natEnabled"), "wan_NAT0",
                   IF Nullish(options, "natEnabled", FALSE) THEN "Enable" ELSE "Disabled")
            @@ Put(Has(options, "mtu"), "wan_TCPMTU0", ToString(Nullish(options, "mtu", 0)))
            @@ Put(Has(options, "vlanId"), "wan_vid", ToString(Nullish(options, "vlanId", 0)))
    IN  Built(WAN, params, "WAN settings updated successfully")

addPortForwardingRule(options) ==
    LET startPort == ToString(options["externalPort"])
        localPort == IF Has(options, "internalPort") /\ options["internalPort"] # 0
                     THEN ToString(options["internalPort"])
                     ELSE ToString(options["externalPort"])
        params ==
            [Application |-> options["name"], SelectProtocol |-> options["protocol"],
             start_port |-> startPort, end_port |-> startPort,
             Addr |-> options["internalIp"],
             local_sport |-> localPort, local_eport |-> localPort,
             enbl |-> IF Nullish(options, "enabled", TRUE) # FALSE THEN "on" ELSE "off",
             isLocalPortSupport |-> "Yes", enblflag |-> "Yes", editFlag |-> "0",
             delFlag |-> "0", editnum |-> "-1"]
    IN  Built(VIRSVR, params,
              "Port forwarding rule \"" \o options["name"] \o "\" added successfully")

deletePortForwardingRule(ruleIndex) ==
    Built(VIRSVR, [delFlag |-> "1", editnum |-> ToString(ruleIndex)],
          "Port forwarding rule at index " \o ToString(ruleIndex) \o " deleted")

\* /^([0-9A-Fa-f]{2}[:-]){5}[0-9A-Fa-f]{2}$/ on the characters of the address
macRegexTest(mac) ==
    /\ Len(mac) = 17
    /\ \A i \in 1..17 :
        IF i % 3 = 0 THEN mac[i] \in {":", "-"} ELSE mac[i] \in HexDigits

directionMap == [both |-> "Both", incoming |-> "Incoming", outgoing |-> "Outgoing"]

setMacFilter(options) ==
    LET direction == OptOr(options, "direction", "both")
        params ==
            [RuleTypeSEL |-> IF options["action"] = "block" THEN "Black" ELSE "White",
             FILTERRuleTypeSEL |-> "MAC",
             MacAddrTXT |-> Str(toUpperCase(options["macAddress"])),
             RuleActiveRDO |-> IF Nullish(options, "enabled", TRUE) # FALSE
                               THEN "Yes" ELSE "No",
             DirectionSEL |-> IF direction \in DOMAIN directionMap
                              THEN directionMap[direction] ELSE "Both",
             RuleIndexSEL |-> ToString(Nullish(options, "ruleIndex", 0)),
             InterfaceSEL |-> "LAN", RuleTypeChange |-> "1", IpFilterApply |-> "Set"]
    IN  IF ~macRegexTest(options["macAddress"])
        THEN Invalid("Invalid MAC address format. Use format: XX:XX:XX:XX:XX:XX")
        ELSE Built(IPFILTER, params,
                   "MAC address " \o Str(options["macAddress"])
                       \o (IF options["action"] = "block" THEN " blocked" ELSE " allowed"))

deleteMacFilter(ruleIndex) ==
    Built(IPFILTER, [RuleIndexSEL |-> ToString(ruleIndex), IpFilterDelete |-> "Delete"],
          "MAC filter rule at index " \o ToString(ruleIndex) \o " deleted")

setQosEnabled(enabled) ==
    Built(QOS,
          [Qos_active |-> IF enabled THEN "Yes" ELSE "No", Qosdiscipline |-> "SP",
           qoSOptType |-> "discRule", QOS_Flag |-> "4",
           QosWRRweight1 |-> "8", QosWRRweight2 |-> "4", QosWRRweight3 |-> "2",
           QosWRRweight4 |-> "1", Qosdisciplinesave |-> "Discipline Save"],
          IF enabled THEN "QoS enabled successfully" ELSE "QoS disabled")

setQosDiscipline(discipline, weights) ==
    LET weighted == discipline = "WRR" /\ weights # EmptyForm
        params ==
            [Qosdiscipline |-> discipline, Qosdisciplinesave |-> "Save"]
            @@ Put(weighted /\ Has(weights, "high"), "QosWRRweight2",
                   ToString(Nullish(weights, "high", 0)))
            @@ Put(weighted /\ Has(weights, "medium"), "QosWRRweight3",
                   ToString(Nullish(weights, "medium", 0)))
            @@ Put(weighted /\ Has(weights, "low"), "QosWRRweight4",
                   ToString(Nullish(weights, "low", 0)))
    IN  Built(QOS, params, "QoS discipline set to " \o discipline)

addQosRule(options) ==
    LET params ==
            [QosRuleIndex |-> ToString(Nullish(options, "ruleIndex", 0)),
             QosRuleActive |-> IF Nullish(options, "enabled", TRUE) # FALSE
                               THEN "Yes" ELSE "No",
             QoS_Add |-> "Add"]
            @@ Put(Truthy(options, "protocol"), "QosProtocol",
                   Nullish(options, "protocol", ""))
            @@ Put(Truthy(options, "sourceIp"), "QosSrcIpValue",
                   Nullish(options, "sourceIp", ""))
            @@ Put(Truthy(options, "destIp"), "QosDestIpValue",
                   Nullish(options, "destIp", ""))
            @@ Put(Truthy(options, "sourcePort"), "QosSrcPortValue1",
                   Nullish(options, "sourcePort", ""))
            @@ Put(Truthy(options, "destPort"), "QosDestPortValue1",
                   Nullish(options, "destPort", ""))
            @@ Put(Has(options, "priority"), "QosIPPValue1",
                   ToString(Nullish(options, "priority", 0)))
    IN  Built(QOS, params, "QoS rule added successfully")

deleteQosRule(ruleIndex) ==
    Built(QOS, [QosRuleIndex |-> ToString(ruleIndex), QoS_Del |-> "Delete"],
          "QoS rule " \o ToString(ruleIndex) \o " deleted")

setAdminPassword(newPassword) ==
    IF newPassword = "" \/ Len(newPassword) < 1
    THEN Invalid("Password cannot be empty")
    ELSE Built(ADMIN,
               [adminFlag |-> "1", uiViewTools_Password |-> newPassword,
                uiViewTools_PasswordConfirm |-> newPassword, SaveBtn |-> "Save"],
               "Admin password changed successfully. Remember to update your login credentials.")

setDdnsSettings(options) ==
    LET params ==
            [Enable_DyDNS |-> IF options["enabled"] THEN "Yes" ELSE "No",
             SaveFlag |-> "1", SaveBtn |-> "Save"]
            @@ Put(Truthy(options, "provider"), "ddns_ServerName",
                   Nullish(options, "provider", ""))
            @@ Put(Truthy(options, "hostname"), "sysDNSHost",
                   Nullish(options, "hostname", ""))
            @@ Put(Truthy(options, "username"), "sysDNSUser",
                   Nullish(options, "username", ""))
            @@ Put(Truthy(options, "password"), "sysDNSPassword",
                   Nullish(options, "password", ""))
            @@ Put(Has(options, "wildcard"), "Enable_Wildcard",
                   IF Nullish(options, "wildcard", FALSE) THEN "Yes" ELSE "No")
    IN  Built(DDNS, params,
              IF options["enabled"] THEN "Dynamic DNS enabled successfully"
              ELSE "Dynamic DNS disabled")

restart ==
    Built(SYSTEM,
          [testFlag |-> "0", restoreFlag |-> "1", rebootFlag |-> "1",
           RestartBtn |-> "Restart"], "")

(***************************************************************************)
(* Convenience wrappers: their own validation, then the call they delegate *)
(* to                                                                      *)
(***************************************************************************)
\* /^(\d{1,3}\.){3}\d{1,3}$/ on the characters of the address
ipRegexTest(cs) ==
    \E a, b, c \in 1..Len(cs) :
        /\ a < b /\ b < c
        /\ cs[a] = "." /\ cs[b] = "." /\ cs[c] = "."
        /\ \A i \in (1..Len(cs)) \ {a, b, c} : cs[i] \in Digits
        /\ {a - 1, b - a - 1, c - b - 1, Len(cs) - c} \subseteq 1..3

Pass(op, options) ==
    [rejected |-> FALSE, message |-> "", op |-> op, options |-> options]

Reject(message) ==
    [rejected |-> TRUE, message |-> message, op |-> "", options |-> EmptyForm]

\* The public method `op` called with arguments `a`: the validation the wrapper
\* does itself and the core method and options object it calls.
Delegate(op, a) ==
    CASE op = "setWifiEnabled" -> Pass("setWifiSettings", "enabled" :> a["enabled"])
      [] op = "setWifiSsid" ->
            IF a["ssid"] = "" \/ Len(a["ssid"]) < 1 \/ Len(a["ssid"]) > 32
            THEN Reject("SSID must be between 1 and 32 characters")
            ELSE Pass("setWifiSettings", "ssid" :> a["ssid"])
      [] op = "setWifiPassword" -> Pass("setWifiSettings", "password" :> a["password"])
      [] op = "setWifiChannel" ->
            IF a["channel"] < 0 \/ a["channel"] > 14
            THEN Reject("Channel must be between 0 (auto) and 14")
            ELSE Pass("setWifiSettings", "channel" :> a["channel"])
      [] op = "setLanIpAddress" ->
            IF ~ipRegexTest(a["ipAddress"])
            THEN Reject("Invalid IP address format")
            ELSE Pass("setLanSettings", "ipAddress" :> Str(a["ipAddress"]))
      [] op = "setDhcpEnabled" -> Pass("setLanSettings", "dhcpEnabled" :> a["enabled"])
      [] op = "setDhcpPool" ->
            IF a["poolSize"] < 1 \/ a["poolSize"] > 254
            THEN Reject("Pool size must be between 1 and 254")
            ELSE Pass("setLanSettings",
                      ("dhcpStartIp" :> a["startIp"]) @@ ("dhcpPoolSize" :> a["poolSize"])
                          @@ Put(Has(a, "leaseTime"), "dhcpLeaseTime",
                                 Nullish(a, "leaseTime", 0)))
      [] op = "setPppoeCredentials" ->
            IF a["username"] = "" \/ a["password"] = ""
            THEN Reject("Username and password are required")
            ELSE Pass("setWanSettings",
                      ("pppUsername" :> a["username"]) @@ ("pppPassword" :> a["password"]))
      [] op = "setNatEnabled" -> Pass("setWanSettings", "natEnabled" :> a["enabled"])
      [] op = "blockDevice" ->
            Pass("setMacFilter", ("macAddress" :> a["macAddress"]) @@ ("action" :> "block"))
      [] op = "allowDevice" ->
            Pass("setMacFilter", ("macAddress" :> a["macAddress"]) @@ ("action" :> "allow"))
      [] op = "enableDdns" ->
            Pass("setDdnsSettings",
                 ("enabled" :> TRUE) @@ ("provider" :> a["provider"])
                     @@ ("hostname" :> a["hostname"]) @@ ("username" :> a["username"])
                     @@ ("password" :> a["password"]))
      [] op = "disableDdns" -> Pass("setDdnsSettings", "enabled" :> FALSE)
      [] OTHER -> Pass(op, a)

\* Writes that read the current settings page first, and the page they read.
FetchFirstWrites == {"setWifiSettings", "setLanSettings"}

\* Writes that build their form from the arguments alone.
DirectWrites ==
    {"setWanSettings", "addPortForwardingRule", "deletePortForwardingRule",
     "setMacFilter", "deleteMacFilter", "setQosEnabled", "setQosDiscipline",
     "addQosRule", "deleteQosRule", "setAdminPassword", "setDdnsSettings", "restart"}

WriteOps == FetchFirstWrites \cup DirectWrites

\* The form a core write method builds, or the validation error it returns.
BuildForm(op, a, form) ==
    CASE op = "setWifiSettings" -> setWifiSettings(a, ParseWirelessSettings(form))
      [] op = "setLanSettings" -> setLanSettings(a, form)
      [] op = "setWanSettings" -> setWanSettings(a)
      [] op = "addPortForwardingRule" -> addPortForwardingRule(a)
      [] op = "deletePortForwardingRule" -> deletePortForwardingRule(a["ruleIndex"])
      [] op = "setMacFilter" -> setMacFilter(a)
      [] op = "deleteMacFilter" -> deleteMacFilter(a["ruleIndex"])
      [] op = "setQosEnabled" -> setQosEnabled(a["enabled"])
      [] op = "setQosDiscipline" ->
            setQosDiscipline(a["discipline"], Nullish(a, "weights", EmptyForm))
      [] op = "addQosRule" -> addQosRule(a)
      [] op = "deleteQosRule" -> deleteQosRule(a["ruleIndex"])
      [] op = "setAdminPassword" -> setAdminPassword(a["newPassword"])
      [] op = "setDdnsSettings" -> setDdnsSettings(a)
      [] OTHER -> restart

\* error.message || '<fallback>' of each method's catch block
FailureFallback(op) ==
    CASE op = "setWifiSettings" -> "Failed to update WiFi settings"
      [] op = "setLanSettings" -> "Failed to update LAN settings"
      [] op = "setWanSettings" -> "Failed to update WAN settings"
      [] op = "addPortForwardingRule" -> "Failed to add port forwarding rule"
      [] op = "deletePortForwardingRule" -> "Failed to delete port forwarding rule"
      [] op = "setMacFilter" -> "Failed to set MAC filter"
      [] op = "deleteMacFilter" -> "Failed to delete MAC filter"
      [] op = "setQosEnabled" -> "Failed to toggle QoS"
      [] op = "setQosDiscipline" -> "Failed to set QoS discipline"
      [] op = "addQosRule" -> "Failed to add QoS rule"
      [] op = "deleteQosRule" -> "Failed to delete QoS rule"
      [] op = "setAdminPassword" -> "Failed to change admin password"
      [] OTHER -> "Failed to configure Dynamic DNS"

(***************************************************************************)
(* Status pages and their parsers                                          *)
(***************************************************************************)
Chars(a, b, s) == <<a, b, s, a, b, s, a, b, s, a, b, s, a, b, s, a, b>>

NAChars == <<"N", "/", "A">>

\* What the status pages of the device show.  Status pages are not changed by
\* any form of the model.
StatusContent ==
    (ARP :> [arpIPaddress |-> <<"192.168.10.7", "192.168.10.4", "192.168.10.9">>,
             arpHWaddress |-> <<Chars("a", "8", ":"), Chars("d", "4", ":"),
                                Chars("0", "c", ":")>>,
             arpDevice |-> <<"br0", "br0">>])
    @@ (DHCPINFO :> [tableData |->
            <<<<"dell-PC", "192.168.10.7", Chars("A", "8", ":"), "0", "15:44:45">>,
              <<"", "192.168.10.4", Chars("D", "4", ":"), "1", "02:00:00">>,
              <<"gone", "N/A", Chars("1", "1", ":"), "0", "00:00:00">>>>])
    @@ (DEVICEINFO :> [cells |-> ("Model Name:" :> "PTCL-VDSL") @@ ("Uptime:" :> "1 day")
                                    @@ ("DHCP:" :> "Enabled"),
                       ary_wan_ptm8 |-> <<<<"Yes", "No", "1", "10.0.0.1", "1.1.1.1", "">>,
                                          <<"Yes", "Yes", "1", "", "9.9.9.9", "">>>>,
                       ary_wan_pvc8 |-> <<<<"Yes", "Yes", "1", "39.46.192.1", "8.8.8.8",
                                            "8.8.4.4">>>>])
    @@ (WANINFO :> [cells |-> ("Default Gateway:" :> "39.46.192.1"),
                    pvc8_serv_info |-> <<<<"Yes", "39.46.240.18", "N/A", "2", "", "", "",
                                           "", "", "", "", "", "1", "">>>>,
                    DslMode |-> "VDSL2"])
    @@ (WIFISTATUS :> [clientnumber |-> 1,
                       mac |-> <<"E2:BC:C1:88:33:26", "N/A", "AA:BB:CC:00:11:22">>])
    @@ (XDSL :> [cells |-> ("Line State:" :> "Up"),
                 dual |-> ("SNR Margin:" :> <<"12.1", "9.0">>)])

Field(content, name, none) == IF name \in DOMAIN content THEN content[name] ELSE none

\* extractByHdClass: the text of the cell next to the label, or 'N/A'
extractByHdClass(content, label) ==
    OrStr(Val(Field(content, "cells", EmptyForm), label), "N/A")

\* the first row of a connection array that is active with the default route
DefaultRouteRows(rows) ==
    SelectSeq(rows, LAMBDA row : row[1] = "Yes" /\ row[2] = "Yes" /\ row[3] = "1")

getDeviceInfo(content) ==
    LET ptm == DefaultRouteRows(Field(content, "ary_wan_ptm8", <<>>))
        pvc == DefaultRouteRows(Field(content, "ary_wan_pvc8", <<>>))
        viaPtm == IF ptm = <<>> THEN <<"N/A", "N/A", "N/A">>
                  ELSE <<OrStr(ptm[1][4], "N/A"), OrStr(ptm[1][5], "N/A"),
                         OrStr(ptm[1][6], "N/A")>>
        wan == IF viaPtm[1] = "N/A" /\ pvc # <<>>
               THEN <<OrStr(pvc[1][4], "N/A"), OrStr(pvc[1][5], "N/A"),
                      OrStr(pvc[1][6], "N/A")>>
               ELSE viaPtm
    IN  [model |-> extractByHdClass(content, "Model Name:"),
         firmwareVersion |-> extractByHdClass(content, "Firmware Version:"),
         hardwareVersion |-> extractByHdClass(content, "Hardware Version:"),
         serialNumber |-> extractByHdClass(content, "Serial Number:"),
         uptime |-> extractByHdClass(content, "Uptime:"),
         lanMac |-> extractByHdClass(content, "MAC Address:"),
         wlanMac |-> extractByHdClass(content, "WLAN MAC:"),
         lanStatus |-> extractByHdClass(content, "LAN Status:"),
         wlanStatus |-> extractByHdClass(content, "WLAN Status:"),
         lanIp |-> extractByHdClass(content, "LAN IPv4 Address:"),
         subnetMask |-> extractByHdClass(content, "Subnet Mask:"),
         dhcpEnabled |-> extractByHdClass(content, "DHCP:") \in {"Enabled", "enabled"},
         gateway |-> wan[1], primaryDns |-> wan[2], secondaryDns |-> wan[3]]

getWanInfo(content) ==
    LET up == SelectSeq(Field(content, "pvc8_serv_info", <<>>),
                        LAMBDA row : row[1] = "Yes" /\ row[2] # "N/A" /\ row[13] = "1")
    IN  [wanIp |-> IF up = <<>> THEN "N/A" ELSE up[1][2],
         pppoeStatus |-> IF up = <<>> THEN "N/A" ELSE "Connected",
         dslStatus |-> OrStr(Field(content, "DslMode", ""), "N/A"),
         gateway |-> OrStr(extractByHdClass(content, "Default Gateway:"), "N/A"),
         primaryDns |-> OrStr(extractByHdClass(content, "DNS Server:"), "N/A"),
         secondaryDns |-> "N/A"]

getWifiStatus(content) ==
    LET clientCount == Field(content, "clientnumber", 0)
        clients == SelectSeq(Field(content, "mac", <<>>), LAMBDA m : m # "" /\ m # "N/A")
        kept == IF clientCount = 0 \/ clientCount > Len(clients)
                THEN clients ELSE SubSeq(clients, 1, clientCount)
    IN  [ssid |-> "N/A", encrypted |-> TRUE, securityType |-> "N/A", channel |-> "N/A",
         noise |-> "N/A",
         clients |-> [i \in 1..Len(kept) |->
                        [mac |-> kept[i], hostname |-> "N/A", ip |-> "", rssi |-> "N/A"]]]

getDslStats(content) ==
    LET dual(label) ==
            LET cells == Field(Field(content, "dual", EmptyForm), label, <<"", "">>)
            IN  <<OrStr(cells[1], "N/A"), OrStr(cells[2], "N/A")>>
        lineState == extractByHdClass(content, "Line State:")
    IN  [lineState |-> lineState,
         modulation |-> extractByHdClass(content, "Modulation:"),
         annexMode |-> extractByHdClass(content, "Annex Mode:"),
         snrMarginDown |-> dual("SNR Margin:")[1], snrMarginUp |-> dual("SNR Margin:")[2],
         attenuationDown |-> dual("Line Attenuation:")[1],
         attenuationUp |-> dual("Line Attenuation:")[2],
         lineRateDown |-> dual("Data Rate:")[1], lineRateUp |-> dual("Data Rate:")[2],
         linkStatus |-> lineState]

getArpTable(content) ==
    LET ips == SelectSeq(Field(content, "arpIPaddress", <<>>), LAMBDA s : s # "")
        macs == SelectSeq(Field(content, "arpHWaddress", <<>>), LAMBDA s : s # <<>>)
        devices == SelectSeq(Field(content, "arpDevice", <<>>), LAMBDA s : s # "")
        all == [i \in 1..Len(ips) |->
                    [ip |-> ips[i],
                     mac |-> IF i <= Len(macs) THEN macs[i] ELSE NAChars,
                     interface |-> IF i <= Len(devices) THEN devices[i] ELSE "br0"]]
    IN  IF ips = <<>> \/ macs = <<>> THEN <<>>
        ELSE SelectSeq(all, LAMBDA e : e.ip # "N/A")

getDhcpLeases(content) ==
    LET rows == SelectSeq(Field(content, "tableData", <<>>),
                          LAMBDA row : row[2] # "" /\ row[2] # "N/A")
    IN  [i \in 1..Len(rows) |->
            [hostname |-> OrStr(rows[i][1], "Unknown"), ip |-> rows[i][2],
             mac |-> rows[i][3], leaseTime |-> rows[i][4] \o " days " \o rows[i][5]]]

LowerChar(ch) ==
    CASE ch = "A" -> "a" [] ch = "B" -> "b" [] ch = "C" -> "c"
      [] ch = "D" -> "d" [] ch = "E" -> "e" [] ch = "F" -> "f"
      [] OTHER -> ch

toLowerCase(cs) == [i \in 1..Len(cs) |-> LowerChar(cs[i])]

\* getConnectedDevices with the MACs compared as they are written.
getConnectedDevicesCaseSensitive(arpTable, dhcpLeases) ==
    LET hostnameOf(mac) ==
            LET hits == {i \in 1..Len(dhcpLeases) : dhcpLeases[i].mac = mac}
            IN  IF hits = {} THEN "Unknown"
                ELSE OrStr(dhcpLeases[CHOOSE i \in hits : \A j \in hits : j <= i].hostname,
                           "Unknown")
    IN  [i \in 1..Len(arpTable) |->
            [hostname |-> hostnameOf(arpTable[i].mac), ip |-> arpTable[i].ip,
             mac |-> arpTable[i].mac, leaseTime |-> "Active"]]

\* getConnectedDevices after both tables arrived: the ARP entries, each with the
\* hostname of the last lease that has its MAC
getConnectedDevices(arpTable, dhcpLeases) ==
    LET hostnameOf(mac) ==
            LET hits == {i \in 1..Len(dhcpLeases) :
                            toLowerCase(dhcpLeases[i].mac) = toLowerCase(mac)}
            IN  IF hits = {} THEN "Unknown"
                ELSE OrStr(dhcpLeases[CHOOSE i \in hits : \A j \in hits : j <= i].hostname,
                           "Unknown")
    IN  [i \in 1..Len(arpTable) |->
            [hostname |-> hostnameOf(arpTable[i].mac), ip |-> arpTable[i].ip,
             mac |-> arpTable[i].mac, leaseTime |-> "Active"]]

(***************************************************************************)
(* Statistics pages: counters                                              *)
(***************************************************************************)
STATSLAN == "/cgi-bin/statslan.asp"
STATSWLAN == "/cgi-bin/statswlan.asp"
STATSADSL == "/cgi-bin/statsadsl.asp"

DigitValue(ch) ==
    CASE ch = "0" -> 0 [] ch = "1" -> 1 [] ch = "2" -> 2 [] ch = "3" -> 3
      [] ch = "4" -> 4 [] ch = "5" -> 5 [] ch = "6" -> 6 [] ch = "7" -> 7
      [] ch = "8" -> 8 [] OTHER -> 9

\* the digits a string starts with
RECURSIVE LeadingDigits(_)
LeadingDigits(cs) ==
    IF cs = <<>> \/ Head(cs) \notin Digits THEN <<>>
    ELSE <<Head(cs)>> \o LeadingDigits(Tail(cs))

RECURSIVE DecimalValue(_)
DecimalValue(ds) ==
    IF ds = <<>> THEN 0
    ELSE 10 * DecimalValue(SubSeq(ds, 1, Len(ds) - 1)) + DigitValue(ds[Len(ds)])

\* parseInt(s) || 0: the number the string starts with, read up to the first
\* character that is not a digit; NaN, when it starts with none, gives 0
RECURSIVE TrimStart(_)
TrimStart(cs) == IF cs # <<>> /\ Head(cs) = " " THEN TrimStart(Tail(cs)) ELSE cs

parseIntOrZero(cs) ==
    LET s == TrimStart(cs)
    IN  IF s # <<>> /\ Head(s) = "-" THEN 0 - DecimalValue(LeadingDigits(Tail(s)))
        ELSE IF s # <<>> /\ Head(s) = "+" THEN DecimalValue(LeadingDigits(Tail(s)))
        ELSE DecimalValue(LeadingDigits(s))

\* s.replace(/,/g, '')
replaceCommas(cs) == SelectSeq(cs, LAMBDA ch : ch # ",")

\* getLanStats: a port block with at least five hdata values is a port; its
\* counters are parsed as they stand
getLanStats(content) ==
    LET blocks == SelectSeq(Field(content, "ports", <<>>), LAMBDA b : Len(b.values) >= 5)
        ports == [i \in 1..Len(blocks) |->
                    [port |-> blocks[i].port, status |-> blocks[i].values[1],
                     bytesReceived |-> parseIntOrZero(blocks[i].values[2]),
                     packetsReceived |-> parseIntOrZero(blocks[i].values[3]),
                     bytesSent |-> parseIntOrZero(blocks[i].values[4]),
                     packetsSent |-> parseIntOrZero(blocks[i].values[5])]]
        Sum(f(_)) == LET RECURSIVE UpTo(_)
                         UpTo(n) == IF n = 0 THEN 0 ELSE UpTo(n - 1) + f(ports[n])
                     IN  UpTo(Len(ports))
        sent(pt) == pt.packetsSent
        received(pt) == pt.packetsReceived
    IN  [totalPacketsSent |-> Sum(sent), totalPacketsReceived |-> Sum(received),
         ports |-> ports]

\* extractValue of getWlanStats: the text of the cell next to the label ('' when
\* there is none), commas removed, parsed
extractValue(content, label) ==
    parseIntOrZero(replaceCommas(Field(Field(content, "cells", EmptyForm), label, <<>>)))

getWlanStats(content) ==
    [packetsSent |-> extractValue(content, "Tx Frames Count"),
     packetsReceived |-> extractValue(content, "Rx Frames Count"),
     bytesSent |-> 0, bytesReceived |-> 0,
     errors |-> extractValue(content, "Tx Errors Count")
                    + extractValue(content, "Rx Errors Count"),
     dropped |-> extractValue(content, "Tx Drops Count")
                    + extractValue(content, "Rx Drops Count")]

\* extractByLabel: the text of the cell next to the label, or 'N/A'
extractByLabel(content, label) ==
    LET text == Field(Field(content, "cells", EmptyForm), label, <<>>)
    IN  IF text = <<>> THEN NAChars ELSE text

getAdslStats(content) ==
    LET counter(label) == parseIntOrZero(replaceCommas(extractByLabel(content, label)))
    IN  [receivedBlocks |-> counter("Received Blocks"),
         transmittedBlocks |-> counter("Transmitted Blocks"),
         cellDefect |-> counter("Cell Delineation"),
         crcErrors |-> counter("CRC Errors"),
         headerErrors |-> counter("Header Errors")]

\* Reads of the statistics pages, and the page of each.
StatsReads == {"getLanStats", "getWlanStats", "getAdslStats"}

\* Reads of one page, and the page of each.
SingleReads == {"getWirelessSettings", "getArpTable", "getDhcpLeases"}

\* Reads that await several pages with Promise.all.
AllReads == {"getConnectedDevices", "getFullStatus"}

FetchPaths(op) ==
    CASE op \in {"setWifiSettings", "getWirelessSettings"} -> {WIRELESS}
      [] op = "setLanSettings" -> {LAN}
      [] op = "getArpTable" -> {ARP}
      [] op = "getDhcpLeases" -> {DHCPINFO}
      [] op = "getConnectedDevices" -> {ARP, DHCPINFO}
      [] op = "getFullStatus" -> {DEVICEINFO, WANINFO, WIFISTATUS, XDSL}
      [] op = "getLanStats" -> {STATSLAN}
      [] op = "getWlanStats" -> {STATSWLAN}
      [] op = "getAdslStats" -> {STATSADSL}
      [] OTHER -> {}

\* The snapshot a read returns, from the body of each page it fetched
\* (bodies: page path -> page content; a login or error page has no content).
Snapshot(op, bodies) ==
    CASE op = "getWirelessSettings" -> ParseWirelessSettings(bodies[WIRELESS])
      [] op = "getArpTable" -> getArpTable(bodies[ARP])
      [] op = "getDhcpLeases" -> getDhcpLeases(bodies[DHCPINFO])
      [] op = "getConnectedDevices" ->
            getConnectedDevices(getArpTable(bodies[ARP]), getDhcpLeases(bodies[DHCPINFO]))
      [] op = "getLanStats" -> getLanStats(bodies[STATSLAN])
      [] op = "getWlanStats" -> getWlanStats(bodies[STATSWLAN])
      [] op = "getAdslStats" -> getAdslStats(bodies[STATSADSL])
      [] OTHER ->
            [device |-> getDeviceInfo(bodies[DEVICEINFO]), wan |-> getWanInfo(bodies[WANINFO]),
             wifi |-> getWifiStatus(bodies[WIFISTATUS]), dsl |-> getDslStats(bodies[XDSL])]

(***************************************************************************)
(* crawlRouterLinks                                                        *)
(***************************************************************************)
maxDepth == 2

\* The console's menu: the root page links to NumLinks pages; each of them links
\* back to the root and on to the next page.  A link stands for baseUrl + href,
\* and the path fetched for it is the href again.
SitePage(i) == "/cgi-bin/page" \o ToString(i) \o ".asp"

SiteLinks(path) ==
    IF path = "/" THEN [i \in 1..NumLinks |-> SitePage(i)]
    ELSE IF \E i \in 1..(NumLinks + maxDepth) : path = SitePage(i)
    THEN LET i == CHOOSE j \in 1..(NumLinks + maxDepth) : path = SitePage(j)
         IN  <<"/", SitePage(i + 1)>>
    ELSE <<>>

\* link.includes('cgi-bin')
IncludesCgiBin(link) == link # "/"

\* extractLinks: the links of a fetched page; a login or error page has none
extractLinks(kind, path) == IF kind = "page" THEN SiteLinks(path) ELSE <<>>

NoCrawl == [visited |-> {}, allLinks |-> {}, stack |-> <<>>, fetch |-> "", depth |-> 0]

\* The for-loops of the crawl frames on the stack, run up to the next fetchPage
\* (fetch is its path) or to the end of the outermost crawl (fetch is "").
RECURSIVE CrawlRun(_)
CrawlRun(s) ==
    IF s.stack = <<>> THEN [s EXCEPT !.fetch = ""]
    ELSE LET top == Head(s.stack)
         IN  IF top.links = <<>> THEN CrawlRun([s EXCEPT !.stack = Tail(@)])
             ELSE LET link == Head(top.links)
                      s1 == [s EXCEPT !.stack = <<[top EXCEPT !.links = Tail(@)]>>
                                                    \o Tail(s.stack),
                                      !.allLinks = @ \cup {link}]
                  IN  IF IncludesCgiBin(link) /\ link \notin s.visited
                      THEN IF top.depth + 1 > maxDepth
                           THEN CrawlRun(s1)
                           ELSE [s1 EXCEPT !.visited = @ \cup {link}, !.fetch = link,
                                           !.depth = top.depth + 1]
                      ELSE CrawlRun(s1)

\* crawl(url, depth) after its fetchPage settled: the catch block skips the page,
\* otherwise the page's links are walked.
CrawlFetchedPage(s, f) ==
    IF f.threw THEN CrawlRun(s)
    ELSE CrawlRun([s EXCEPT !.stack =
                    <<[links |-> extractLinks(f.kind, s.fetch), depth |-> s.depth]>> \o @])

(***************************************************************************)
(* Adapter calls                                                           *)
(***************************************************************************)
NoResult == [kind |-> "none", success |-> FALSE, message |-> "", value |-> <<>>]

\* { success, message } of a write
WriteResult(success, message) ==
    [kind |-> "result", success |-> success, message |-> message, value |-> <<>>]

\* the boolean restart returns
BoolResult(b) == [kind |-> "boolean", success |-> b, message |-> "", value |-> <<>>]

\* the snapshot a read returns
ValueResult(v) == [kind |-> "value", success |-> TRUE, message |-> "", value |-> v]

\* the call rejects: the error propagates to the caller
Thrown(message) == [kind |-> "throw", success |-> FALSE, message |-> message, value |-> <<>>]

IdleCall ==
    [pc |-> "idle", op |-> "", args |-> EmptyForm, core |-> "", options |-> EmptyForm,
     pending |-> {}, bodies |-> EmptyForm, seen |-> {}, path |-> "", body |-> EmptyForm,
     okMessage |-> "", posted |-> {}, result |-> NoResult, gets |-> 0, posts |-> 0,
     late |-> 0, crawl |-> NoCrawl]

SessionExpiredOutcomes == {"s401", "s403"}

\* the device answered one of the call's GETs with 401 or 403
Expired(call) == call.seen \cap SessionExpiredOutcomes # {}

Done(call, result) == [call EXCEPT !.pc = "done", !.result = result, !.pending = {}]

\* A write method without its try/catch: the error reaches the caller.
CatchWriteRethrow(op, message) == Thrown(message)

\* catch (error) of a write method: { success: false, message: error.message || fallback };
\* restart returns false
CatchWrite(op, message) ==
    IF op = "restart" THEN BoolResult(FALSE)
    ELSE WriteResult(FALSE, OrStr(message, FailureFallback(op)))

\* The return on a validation error, or else the POST of the built form.
Submit(call, b) ==
    IF ~b.ok THEN Done(call, WriteResult(FALSE, b.message))
    ELSE [call EXCEPT !.pc = "post", !.path = b.path, !.body = b.body,
                      !.okMessage = b.message, !.posts = @ + 1,
                      !.late = @ + (IF Expired(call) THEN 1 ELSE 0)]

\* The GETs a call issues, all before any of them is answered.
Fetching(call, paths) ==
    [call EXCEPT !.pc = "get", !.pending = paths, !.gets = @ + Cardinality(paths),
                 !.late = @ + (IF Expired(call) THEN Cardinality(paths) ELSE 0)]

\* A public method from its call to its first await.
Started(inv) ==
    LET d == Delegate(inv.op, inv.args)
        call == [IdleCall EXCEPT !.op = inv.op, !.args = inv.args, !.core = d.op,
                                 !.options = d.options]
    IN  IF d.rejected THEN Done(call, WriteResult(FALSE, d.message))
        ELSE IF d.op \in DirectWrites
        THEN Submit(call, BuildForm(d.op, d.options, EmptyForm))
        ELSE IF d.op = "crawlRouterLinks"
        THEN Fetching([call EXCEPT !.crawl = [NoCrawl EXCEPT !.visited = {"/"},
                                                             !.fetch = "/"]], {"/"})
        ELSE Fetching(call, FetchPaths(d.op))

\* What a page shows.
Content(dev, path) ==
    IF path \in FormPages THEN dev[path]
    ELSE IF path \in DOMAIN StatusContent THEN StatusContent[path]
    ELSE EmptyForm

\* setWifiSettings / setLanSettings after the current-settings fetch settled.
WriteAfterFetch(call, path, f, dev) ==
    LET got == [call EXCEPT !.pending = {},
                            !.bodies = (path :> PageForm(f.kind, Content(dev, path))) @@ @]
    IN  IF f.threw THEN Done(call, CatchWrite(call.core, f.message))
        ELSE Submit(got, BuildForm(call.core, call.options, got.bodies[path]))

\* A read after one of its fetches settled: the first failure rejects the read;
\* the snapshot is built once every page has arrived.
ReadAfterShown(call, path, f, content) ==
    LET got == [call EXCEPT !.pending = @ \ {path},
                            !.bodies = (path :> PageForm(f.kind, content)) @@ @]
    IN  IF f.threw THEN Done(call, Thrown(f.message))
        ELSE IF got.pending # {} THEN got
        ELSE Done(got, ValueResult(Snapshot(call.core, got.bodies)))

ReadAfterFetch(call, path, f, dev) == ReadAfterShown(call, path, f, Content(dev, path))

\* A write after its POST settled: no status is inspected, only a rejected
\* promise reaches the catch block.
WriteAfterPost(call, r) ==
    IF r.rejected THEN Done(call, CatchWrite(call.core, r.message))
    ELSE IF call.core = "restart" THEN Done(call, BoolResult(TRUE))
    ELSE Done(call, WriteResult(TRUE, call.okMessage))

GoodIp == <<"1", "0", ".", "0", ".", "0", ".", "1">>

BadIp == <<"1", "0", ".", "0", ".", "1">>

\* The calls the model makes: every public write method and the reads, with
\* arguments on both sides of each validation.
Invocations ==
    [op : {"setWifiSettings"},
     args : {"ssid" :> "Guest", "channel" :> 11, "enabled" :> FALSE, "enabled" :> TRUE,
             "password" :> "longenough", "password" :> "short",
             ("ssid" :> "Guest") @@ ("channel" :> 6)}]
    \cup [op : {"setWifiSsid"}, args : {"ssid" :> "Guest", "ssid" :> ""}]
    \cup [op : {"setWifiPassword"}, args : {"password" :> "longenough", "password" :> "short"}]
    \cup [op : {"setWifiChannel"}, args : {"channel" :> 11, "channel" :> 15}]
    \cup [op : {"setWifiEnabled", "setDhcpEnabled", "setNatEnabled", "setQosEnabled"},
          args : {"enabled" :> TRUE, "enabled" :> FALSE}]
    \cup [op : {"setLanSettings"},
          args : {"ipAddress" :> "10.0.0.1", "dhcpLeaseTime" :> 3600, "dhcpEnabled" :> FALSE}]
    \cup [op : {"setLanIpAddress"}, args : {"ipAddress" :> GoodIp, "ipAddress" :> BadIp}]
    \cup [op : {"setDhcpPool"},
          args : {("startIp" :> "192.168.10.50") @@ ("poolSize" :> 100),
                  ("startIp" :> "192.168.10.50") @@ ("poolSize" :> 300)}]
    \cup [op : {"setWanSettings"}, args : {"mtu" :> 1400, "connectionType" :> "bridge"}]
    \cup [op : {"setPppoeCredentials"},
          args : {("username" :> "isp") @@ ("password" :> "secret"),
                  ("username" :> "isp") @@ ("password" :> "")}]
    \cup [op : {"addPortForwardingRule"},
          args : {("name" :> "web") @@ ("protocol" :> "TCP") @@ ("externalPort" :> 8080)
                      @@ ("internalIp" :> "192.168.10.7")}]
    \cup [op : {"deletePortForwardingRule", "deleteMacFilter", "deleteQosRule"},
          args : {"ruleIndex" :> 1}]
    \cup [op : {"setMacFilter"},
          args : {("macAddress" :> Chars("a", "8", ":")) @@ ("action" :> "block"),
                  ("macAddress" :> <<"a", "8", ":", "z", "z">>) @@ ("action" :> "block")}]
    \cup [op : {"blockDevice", "allowDevice"},
          args : {"macAddress" :> Chars("d", "4", "-"), "macAddress" :> <<"x">>}]
    \cup [op : {"setQosDiscipline"},
          args : {"discipline" :> "SP",
                  ("discipline" :> "WRR") @@ ("weights" :> ("high" :> 6))}]
    \cup [op : {"addQosRule"},
          args : {("protocol" :> "TCP") @@ ("destPort" :> "443") @@ ("priority" :> 7),
                  EmptyForm}]
    \cup [op : {"setAdminPassword"}, args : {"newPassword" :> "admin2", "newPassword" :> ""}]
    \cup [op : {"setDdnsSettings"},
          args : {("enabled" :> TRUE) @@ ("hostname" :> "me.dyn")}]
    \cup [op : {"enableDdns"},
          args : {("provider" :> "noip") @@ ("hostname" :> "me.dyn")
                      @@ ("username" :> "me") @@ ("password" :> "pw")}]
    \cup [op : {"disableDdns", "restart", "getWirelessSettings", "getArpTable",
                "getDhcpLeases", "getConnectedDevices", "getFullStatus",
                "crawlRouterLinks"},
          args : {EmptyForm}]

(***************************************************************************)
(* The session manager (src/lib/router/session-manager.ts) and the routes  *)
(* that use it                                                             *)
(*                                                                         *)
(* The session is kept in the router_session cookie of the browser.  A     *)
(* route handler sees the cookie its request carried; what it sets or      *)
(* deletes reaches the browser with its response.                          *)
(***************************************************************************)
Handlers == {"h1", "h2"}

SessionIds == 1..MaxLogins

RouterIp == "192.168.10.1"

\* RouterSession
Sessions == [routerIp : {RouterIp}, sessionId : SessionIds]

\* no router_session cookie; the null of getSession and getValidSession
NoSession == [routerIp |-> "", sessionId |-> 0]

\* getSession: the session stored in the cookie of the request, or null
getSession(cookie) == cookie

\* saveSession: the cookie is set to the session
saveSession(cookie, session) == session

\* clearSession that leaves the cookie in place.
clearSessionKeepsCookie(cookie) == cookie

\* clearSession: the cookie is deleted
clearSession(cookie) == NoSession

\* What the device answers to the probe of its root page.
ProbeOutcomes == Outcomes \cup {"redirOther"}

\* response.status of the probe
ProbeStatus(outcome) == IF outcome = "redirOther" THEN 302 ELSE StatusOf(outcome)

\* response.headers.location of the probe
ProbeLocation(outcome) ==
    CASE outcome = "redirLogin" -> "/login.asp"
      [] outcome = "redirOther" -> "/index.asp"
      [] OTHER -> ""

\* location?.includes('login')
IncludesLogin(location) == location = "/login.asp"

\* The probe's axios.get with redirects followed, as the adapter's client does.
ProbeResponseFollowingRedirects(outcome) ==
    IF outcome = "timeout" \/ ~validateStatus(ProbeStatus(outcome))
    THEN [rejected |-> TRUE, status |-> 0, location |-> ""]
    ELSE IF ProbeStatus(outcome) \in 300..399
    THEN [rejected |-> FALSE, status |-> 200, location |-> ""]
    ELSE [rejected |-> FALSE, status |-> ProbeStatus(outcome), location |-> ""]

\* The promise of the probe's axios.get: validateStatus accepts every status
\* below 500, maxRedirects is 0 so a 3xx answer is the response itself, and a
\* timeout (5000 ms) or a 5xx rejects.
ProbeResponse(outcome) ==
    IF outcome = "timeout" \/ ~validateStatus(ProbeStatus(outcome))
    THEN [rejected |-> TRUE, status |-> 0, location |-> ""]
    ELSE [rejected |-> FALSE, status |-> ProbeStatus(outcome),
          location |-> ProbeLocation(outcome)]

\* testSessionWithRouter, after its axios.get settled
testSessionWithRouter(outcome) ==
    LET response == ProbeResponse(outcome)
    IN  IF response.rejected THEN FALSE
        ELSE IF response.status = 401 \/ response.status = 403 THEN FALSE
        ELSE IF response.status >= 300 /\ response.status < 400
                /\ IncludesLogin(response.location)
        THEN FALSE
        ELSE response.status = 200

\* What the device can answer to a probe that carries a session it accepts,
\* and one it does not.
ProbeAnswers(accepted) ==
    IF accepted THEN {"ok", "s404", "s500", "timeout", "redirOther"}
    ELSE {"s401", "s403", "redirLogin", "timeout"}

\* The routes of the application and the exported getValidSession.
Routes == {"login", "logout", "authCheck", "chat", "fetchSettings", "getValidSession"}

\* Routes that build a router adapter from the stored session.
AdapterRoutes == {"chat", "fetchSettings"}

\* A route handler: the cookie of its request (with what the handler has set
\* or deleted), whether it changed the cookie, the session it got, the probe
\* it ran, the requests its adapter sent, and its answer.
IdleHandler ==
    [pc |-> "idle", route |-> "", input |-> "", cookie |-> NoSession, changed |-> "none",
     session |-> NoSession, probed |-> FALSE, probe |-> "", isValid |-> FALSE,
     ops |-> 0, stale |-> 0, status |-> 0, value |-> NoSession, sentAfter |-> "none",
     answer |-> "", message |-> ""]

\* The handler answers with the HTTP status.
Respond(handler, status) == [handler EXCEPT !.pc = "respond", !.status = status]

\* The credentials a login request carries.
Credentials == {"valid", "invalid", "missing"}

\* What the device or the network does with the navigation of the login.
LoginOutcomes == Outcomes \cup {"noResponse"}

\* What the device answers to the browser engine of performRouterLogin.
LoginAnswers(credentials) ==
    IF credentials = "valid" THEN {"ok", "s404", "s500", "noResponse", "timeout"}
    ELSE {"s401", "s403", "timeout"}

\* performRouterLogin: page.goto throws on a navigation timeout; the function
\* throws when there is no response or the status is 401; after any other
\* answer it returns the cookies the browser engine holds.
performRouterLogin(outcome) ==
    IF outcome = "timeout"
    THEN [threw |-> TRUE, message |-> "Navigation timeout of 15000 ms exceeded"]
    ELSE IF outcome = "noResponse"
    THEN [threw |-> TRUE, message |-> "No response from router"]
    ELSE IF StatusOf(outcome) = 401
    THEN [threw |-> TRUE, message |-> "Invalid credentials"]
    ELSE [threw |-> FALSE, message |-> ""]

\* loginAndSaveSession: the session is saved when performRouterLogin returned
loginAndSaveSession(outcome) ==
    LET login == performRouterLogin(outcome)
    IN  IF login.threw
        THEN [success |-> FALSE, saved |-> FALSE,
              message |-> OrStr(login.message, "Failed to login")]
        ELSE [success |-> TRUE, saved |-> TRUE, message |-> "Login successful"]

\* POST of the login route, after loginAndSaveSession settled with the session
\* `sid` the device handed out.
LoginHandled(handler, outcome, sid) ==
    LET result == loginAndSaveSession(outcome)
        answered == [handler EXCEPT !.answer = outcome, !.message = result.message]
    IN  IF handler.input = "missing"
        THEN Respond([handler EXCEPT !.message = "Missing credentials"], 400)
        ELSE IF ~result.success THEN Respond(answered, 401)
        ELSE Respond([answered EXCEPT
                        !.cookie = saveSession(@, [routerIp |-> RouterIp, sessionId |-> sid]),
                        !.changed = "saved"], 200)

\* POST of the logout route (and DELETE of the login route)
LogoutHandled(handler) ==
    Respond([handler EXCEPT !.cookie = clearSession(@), !.changed = "loggedOut"], 200)

\* GET of the auth check route
AuthCheckHandled(handler) ==
    LET session == getSession(handler.cookie)
    IN  Respond([handler EXCEPT !.session = session],
                IF session = NoSession THEN 401 ELSE 200)

\* The chat route and the fetch-settings route up to the adapter they build:
\* getSession, 401 without a session, else the adapter is constructed from
\* the session as it is stored.
AdapterBuilt(handler) ==
    LET session == getSession(handler.cookie)
    IN  IF session = NoSession THEN Respond(handler, 401)
        ELSE [handler EXCEPT !.pc = "adapter", !.session = session]

\* The adapter of the handler sends a request to the device.
AdapterRequested(handler, accepted) ==
    [handler EXCEPT !.ops = @ + 1,
                    !.stale = @ + (IF handler.session.sessionId \in accepted THEN 0 ELSE 1)]

\* getValidSession up to its probe
GetValidSessionStarted(handler) ==
    LET session == getSession(handler.cookie)
    IN  IF session = NoSession THEN Respond(handler, 0)
        ELSE [handler EXCEPT !.pc = "probe", !.session = session]

\* getValidSession after testSessionWithRouter settled
GetValidSessionProbed(handler, outcome) ==
    LET isValid == testSessionWithRouter(outcome)
        probed == [handler EXCEPT !.probed = TRUE, !.probe = outcome, !.isValid = isValid]
    IN  IF ~isValid
        THEN Respond([probed EXCEPT !.cookie = clearSession(@),
                                    !.changed = "revalidationFailed"], 0)
        ELSE Respond([probed EXCEPT !.value = handler.session], 0)

(***************************************************************************)
(* Chat agent: tools                                                       *)
(***************************************************************************)
\* The tools that change the router, and the adapter method each one calls.
AdapterMethod ==
    [restartRouter |-> "restart", setWifiSsid |-> "setWifiSsid",
     setWifiPassword |-> "setWifiPassword", setWifiEnabled |-> "setWifiEnabled",
     setWifiChannel |-> "setWifiChannel", setQosEnabled |-> "setQosEnabled",
     addQosRule |-> "addQosRule", addPortForwarding |-> "addPortForwardingRule",
     blockDevice |-> "blockDevice", allowDevice |-> "allowDevice",
     setDhcpEnabled |-> "setDhcpEnabled", setAdminPassword |-> "setAdminPassword"]

StateChangingTools == DOMAIN AdapterMethod

NoToolRun == [n |-> 0, name |-> "", confirm |-> FALSE, prompted |-> FALSE]

\* The handler of a state-changing tool that calls the adapter whatever `confirm`
\* says.
ToolHandlerUnconfirmed(name, input, confirm) ==
    [calls |-> TRUE, inv |-> [op |-> AdapterMethod[name], args |-> input],
     prompted |-> FALSE]

\* The handler of a state-changing tool: without confirm it returns its request
\* for confirmation; with it, it calls its adapter method with the tool's input.
ToolHandler(name, input, confirm) ==
    IF ~confirm
    THEN [calls |-> FALSE, inv |-> [op |-> "", args |-> EmptyForm], prompted |-> TRUE]
    ELSE [calls |-> TRUE, inv |-> [op |-> AdapterMethod[name], args |-> input],
          prompted |-> FALSE]

(***************************************************************************)
(* Chat agent: streamAgentWithEvents                                       *)
(***************************************************************************)
CHUNK_SIZE == 3

Text(s) ==
    CASE s = "OK" -> <<"O", "K">>
      [] s = "getLanStats" -> <<"g", "e", "t", "L", "a", "n", "S", "t", "a", "t", "s">>
      [] s = "the requested operation" ->
            <<"t", "h", "e", " ", "r", "e", "q", "u", "e", "s", "t", "e", "d", " ", "o", "p",
              "e", "r", "a", "t", "i", "o", "n">>
      [] s = "Blocked" -> <<"B", "l", "o", "c", "k", "e", "d">>
      [] s = " " -> <<" ">>
      [] OTHER -> <<>>

\* maskToolNames(sanitizeOutput(content)) on the texts of the model: the name of
\* a tool becomes 'the requested operation'.
maskToolNames(content) ==
    IF content = Text("getLanStats") THEN Text("the requested operation") ELSE content

\* content.trim() is not empty
NotBlank(content) == \E i \in 1..Len(content) : content[i] # " "

stepDescriptions ==
    [input_guardrail |-> "Checking request...", agent |-> "Thinking...",
     tools |-> "Running action...", output_guardrail |-> "Preparing response..."]

\* TOOL_DISPLAY_NAMES[toolName] || 'Processing'
getToolDisplayName(toolName) ==
    CASE toolName = "getLanStats" -> "Reading LAN port stats"
      [] toolName = "setWifiSsid" -> "Changing network name"
      [] toolName = "blockDevice" -> "Blocking device"
      [] OTHER -> "Processing"

StepEvent(step) == [type |-> "step", label |-> step, content |-> <<>>]
ToolEvent(tool) == [type |-> "tool", label |-> tool, content |-> <<>>]
ContentEvent(chunk) == [type |-> "content", label |-> "", content |-> chunk]
DoneEvent(label, content) == [type |-> "done", label |-> label, content |-> content]

IdleStream ==
    [pc |-> "idle", at |-> "", events |-> <<>>, seenNodes |-> {}, finalContent |-> <<>>,
     rounds |-> 0, sent |-> 0, case |-> ""]

\* What a node of the graph may put in its update.  `messages` is the number of
\* messages, `ai` the text of the last one when it is an AI message with text
\* content, `names` the names of the tool messages, `next` the node the graph
\* goes to.
NodeOutputs(node, rounds) ==
    CASE node = "input_guardrail" ->
            {[messages |-> 0, ai |-> <<>>, names |-> <<>>, next |-> "agent", case |-> ""],
             [messages |-> 1, ai |-> Text("Blocked"), names |-> <<>>, next |-> "end",
              case |-> "blocked"]}
      [] node = "agent" ->
            {[messages |-> 1, ai |-> Text(s), names |-> <<>>, next |-> "output_guardrail",
              case |-> ""] : s \in {"", " ", "OK", "getLanStats"}}
            \cup (IF rounds < MaxRounds
                  THEN {[messages |-> 1, ai |-> Text(s), names |-> <<>>, next |-> "tools",
                         case |-> ""] : s \in {"", "OK"}}
                  ELSE {})
      [] node = "tools" ->
            {[messages |-> Len(names), ai |-> <<>>, names |-> names, next |-> "agent",
              case |-> ""] :
                names \in {<<"getLanStats">>, <<"setWifiSsid", "getLocalIP">>}}
      [] OTHER ->
            {[messages |-> 0, ai |-> <<>>, names |-> <<>>, next |-> "end", case |-> ""],
             [messages |-> 1, ai |-> Text("OK"), names |-> <<>>, next |-> "end",
              case |-> ""]}

\* The body of the for-await loop for one update { node: output }.
StreamChunk(s, node, output) ==
    LET step == IF node \notin s.seenNodes THEN <<StepEvent(stepDescriptions[node])>>
                ELSE <<>>
        tools == IF node = "tools"
                 THEN [i \in 1..Len(output.names) |->
                            ToolEvent(getToolDisplayName(output.names[i]))]
                 ELSE <<>>
        takes == node \in {"output_guardrail", "agent"} /\ output.messages > 0
                    /\ NotBlank(output.ai)
        seen == s.seenNodes \cup {node}
    IN  [s EXCEPT !.events = @ \o step \o tools,
                  !.seenNodes = IF "tools" \in seen THEN seen \ {"agent"} ELSE seen,
                  !.finalContent = IF takes THEN output.ai ELSE @,
                  !.at = output.next,
                  !.rounds = IF node = "tools" THEN @ + 1 ELSE @,
                  !.case = IF output.case # "" THEN output.case ELSE @]

\* The messages of errors the graph may throw, and the catch block's event.
ErrorMessages == {"Session expired - please login again", "Request failed with status code 401",
                  "fetch failed", ""}

IncludesSessionExpired(message) ==
    message \in {"Session expired - please login again", "Request failed with status code 401"}

StreamCaught(s, message) ==
    [s EXCEPT !.pc = "ended", !.case = "threw",
              !.events = @ \o <<DoneEvent(IF IncludesSessionExpired(message)
                                          THEN "Your router session has expired."
                                          ELSE IF message = ""
                                          THEN "Error: An unexpected error occurred"
                                          ELSE "Error: " \o message, <<>>)>>]

\* After the loop: with content, the generator goes on to stream it; with none it
\* yields its last event at once.
StreamLoopOver(s) ==
    IF s.finalContent # <<>>
    THEN [s EXCEPT !.pc = "content", !.finalContent = maskToolNames(@), !.sent = 0]
    ELSE [s EXCEPT !.pc = "ended",
                   !.case = IF @ = "" THEN "none" ELSE @,
                   !.events = @ \o <<DoneEvent("I couldn't generate a response. Please try again.",
                                               <<>>)>>]

\* One turn of the content loop, or the event after it.
StreamContent(s) ==
    IF s.sent < Len(s.finalContent)
    THEN LET last == IF s.sent + CHUNK_SIZE < Len(s.finalContent)
                     THEN s.sent + CHUNK_SIZE ELSE Len(s.finalContent)
         IN  [s EXCEPT !.sent = @ + CHUNK_SIZE,
                       !.events = @ \o <<ContentEvent(SubSeq(s.finalContent, s.sent + 1, last))>>]
    ELSE [s EXCEPT !.pc = "ended", !.case = IF @ = "" THEN "content" ELSE @,
                   !.events = @ \o <<DoneEvent("", s.finalContent)>>]

\* The messages of a request: of the declared shape, or an array with an entry
\* that is no object (the route checks only that it is an array).
MessageArrays == {"wellFormed", "nullEntry"}

\* The statements before the try block: the graph is built and the messages are
\* converted; m.role of an entry that is null throws, and the generator ends
\* with that error without an event.
StreamStarted(s, messages) ==
    IF messages = "nullEntry"
    THEN [s EXCEPT !.pc = "threw", !.case = "threwBeforeTry"]
    ELSE [s EXCEPT !.pc = "graph", !.at = "input_guardrail"]

(***************************************************************************)
(* Actions                                                                 *)
(***************************************************************************)
TypeOK ==
    /\ DOMAIN device = FormPages
    /\ \A p \in FormPages : DOMAIN device[p] = DOMAIN FirmwareDefault[p]
    /\ \A c \in Calls : calls[c].pc \in {"idle", "get", "post", "done"}
    /\ DOMAIN calls = Calls
    /\ ncalls \in 0..MaxCalls
    /\ browser \in Sessions \cup {NoSession}
    /\ router.accepted \subseteq SessionIds /\ router.issued \in 0..MaxLogins
    /\ \A h \in Handlers : handlers[h].pc \in {"idle", "start", "probe", "adapter", "respond"}
    /\ nreqs \in 0..MaxRequests
    /\ storeEvent \in {"none", "saved", "loggedOut", "revalidationFailed"}
    /\ toolRun.n \in 0..MaxToolRuns /\ toolRun.confirm \in BOOLEAN
    /\ stream.pc \in {"idle", "graph", "content", "ended", "threw"}
    /\ stream.rounds \in 0..MaxRounds

Init ==
    /\ device \in InitialDevices
    /\ calls = [c \in Calls |-> IdleCall]
    /\ ncalls = 0
    /\ browser = NoSession
    /\ router = [accepted |-> {}, issued |-> 0]
    /\ handlers = [h \in Handlers |-> IdleHandler]
    /\ nreqs = 0
    /\ storeEvent = "none"
    /\ toolRun = NoToolRun
    /\ stream = IdleStream

\* The caller invokes a public method of the adapter.
Invoke(c, inv) ==
    /\ calls[c].pc = "idle"
    /\ ncalls < MaxCalls
    /\ ncalls' = ncalls + 1
    /\ calls' = [calls EXCEPT ![c] = Started(inv)]
    /\ UNCHANGED <<device, sessionVars, agentVars>>

\* The current-settings GET of a write settles.
WriteFetched(c, path, outcome) ==
    /\ calls[c].pc = "get"
    /\ calls[c].core \in FetchFirstWrites
    /\ path \in calls[c].pending
    /\ calls' = [calls EXCEPT ![c] =
            WriteAfterFetch([calls[c] EXCEPT !.seen = @ \cup {outcome}], path,
                            fetchPage(outcome), device)]
    /\ UNCHANGED <<device, ncalls, sessionVars, agentVars>>

\* One of the GETs of a read settles.
ReadFetched(c, path, outcome) ==
    /\ calls[c].pc = "get"
    /\ calls[c].core \in SingleReads \cup AllReads
    /\ path \in calls[c].pending
    /\ calls' = [calls EXCEPT ![c] =
            ReadAfterFetch([calls[c] EXCEPT !.seen = @ \cup {outcome}], path,
                           fetchPage(outcome), device)]
    /\ UNCHANGED <<device, ncalls, sessionVars, agentVars>>

\* The GET of the page the crawler is at settles.
CrawlFetched(c, outcome) ==
    /\ calls[c].pc = "get"
    /\ calls[c].core = "crawlRouterLinks"
    /\ LET call == [calls[c] EXCEPT !.seen = @ \cup {outcome}]
           s == CrawlFetchedPage(call.crawl, fetchPage(outcome))
       IN  calls' = [calls EXCEPT ![c] =
                IF s.fetch = ""
                THEN Done([call EXCEPT !.crawl = s], ValueResult(s.allLinks))
                ELSE Fetching([call EXCEPT !.crawl = s], {s.fetch})]
    /\ UNCHANGED <<device, ncalls, sessionVars, agentVars>>

\* The POST of a write settles; a POST the device answers with 200 is stored.
Posted(c, outcome) ==
    /\ calls[c].pc = "post"
    /\ calls' = [calls EXCEPT ![c] =
            WriteAfterPost([calls[c] EXCEPT !.posted = @ \cup {outcome}],
                           AxiosResponse(outcome))]
    /\ device' =
            IF outcome = "ok" /\ TargetsStoredForm(calls[c].path, calls[c].body)
            THEN [device EXCEPT ![calls[c].path] =
                        ApplyForm(calls[c].path, @, calls[c].body)]
            ELSE device
    /\ UNCHANGED <<ncalls, sessionVars, agentVars>>

\* The caller takes the result; the call object is gone.
Return(c) ==
    /\ calls[c].pc = "done"
    /\ calls' = [calls EXCEPT ![c] = IdleCall]
    /\ UNCHANGED <<device, ncalls, sessionVars, agentVars>>

\* The caller of Spec awaits each call before it makes the next.
SequentialCalls == {"c1"}

Next ==
    \E c \in SequentialCalls :
        \/ \E inv \in Invocations : Invoke(c, inv)
        \/ \E path \in {WIRELESS, LAN}, outcome \in Outcomes : WriteFetched(c, path, outcome)
        \/ \E path \in DOMAIN StatusContent \cup {WIRELESS}, outcome \in Outcomes :
                ReadFetched(c, path, outcome)
        \/ \E outcome \in Outcomes : CrawlFetched(c, outcome)
        \/ \E outcome \in Outcomes : Posted(c, outcome)
        \/ Return(c)

Spec == Init /\ [][Next]_vars

(***************************************************************************)
(* Properties                                                              *)
(***************************************************************************)
\* The call has sent its POST.
HasPosted(call) == call.posts > 0

\* The call read its current-settings page and the device showed it (status 200).
ReadCurrent(call, path) == path \in DOMAIN call.bodies /\ call.seen = {"ok"}

\* The form field that carries each option of setWifiSettings.
WifiFieldOf ==
    [ssid |-> "ESSID", password |-> "PreSharedKey1", channel |-> "Channel_ID",
     enabled |-> "wlan_APenable"]

\* C1: setWifiSettings and its wrappers submit every caller-visible field (SSID,
\* password, channel, enabled) that the request leaves out with the value the
\* current-settings page of the same call showed.
C1_AbsentWifiFieldsKeepCurrent ==
    \A c \in Calls :
        LET call == calls[c]
        IN  (call.core = "setWifiSettings" /\ HasPosted(call) /\ ReadCurrent(call, WIRELESS))
            => \A o \in DOMAIN WifiFieldOf :
                    o \notin DOMAIN call.options
                    => call.body[WifiFieldOf[o]] = call.bodies[WIRELESS][WifiFieldOf[o]]

\* The form field that carries each option of setLanSettings.
LanFieldOf ==
    [ipAddress |-> "uiViewIPAddr", subnetMask |-> "uiViewNetMask",
     dhcpEnabled |-> "dhcpTypeRadio", dhcpStartIp |-> "StartIp",
     dhcpPoolSize |-> "PoolSize", dhcpLeaseTime |-> "dhcp_LeaseTime"]

\* The LAN/DHCP settings of the form: those an option carries and the DNS ones.
LanSettingFields ==
    {LanFieldOf[o] : o \in DOMAIN LanFieldOf} \cup {"dnsTypeRadio", "PrimaryDns", "SecondDns"}

\* C2: setLanSettings and its wrappers change only the fields of the delta: every
\* other LAN/DHCP field (LAN IP, mask, DHCP type, start IP, pool size, lease time,
\* DNS type, DNS servers) is submitted with the value the page showed just before.
C2_LanDeltaChangesOnlyItsFields ==
    \A c \in Calls :
        LET call == calls[c]
            changed == {LanFieldOf[o] : o \in DOMAIN call.options \cap DOMAIN LanFieldOf}
        IN  (call.core = "setLanSettings" /\ HasPosted(call) /\ ReadCurrent(call, LAN))
            => \A f \in LanSettingFields \ changed : call.body[f] = call.bodies[LAN][f]

\* The form fields outside the caller's mutation vocabulary, per write.
FixedFields(core) ==
    CASE core = "setWifiSettings" ->
            {"WirelessMode", "BeaconInterval", "RTSThreshold", "FragmentThreshold", "DTIM",
             "wlanWEPFlag", "SSID_INDEX", "Is11nMode", "StationNum"}
      [] core = "setLanSettings" -> {"dhcpFlag", "lanFlag", "aliasFlag", "DNSproxy"}
      [] core = "setQosEnabled" ->
            {"Qosdiscipline", "QosWRRweight1", "QosWRRweight2", "QosWRRweight3",
             "QosWRRweight4"}
      [] OTHER -> {}

\* C3: every write submits each form field outside the caller's vocabulary
\* (WirelessMode, BeaconInterval, wlanWEPFlag; dhcpFlag, lanFlag, DNSproxy; QoS
\* discipline and weights) with the value extracted from the current-settings
\* page in the same call, never with a constant of the adapter.
C3_FixedFieldsCopiedFromCurrentPage ==
    \A c \in Calls :
        LET call == calls[c]
        IN  (HasPosted(call) /\ call.seen \subseteq {"ok"})
            => \A f \in FixedFields(call.core) :
                    /\ call.path \in DOMAIN call.bodies
                    /\ call.body[f] = call.bodies[call.path][f]

\* The complete field set of the form each of these writes targets.
FormFieldsOf(core) ==
    CASE core = "setWanSettings" -> DOMAIN FirmwareWan
      [] core = "setDdnsSettings" -> DOMAIN FirmwareDdns
      [] core = "setQosDiscipline" -> DOMAIN FirmwareQos
      [] core = "addQosRule" -> QosRuleFields
      [] OTHER -> {}

\* C4: the POST body of setWanSettings (setPppoeCredentials, setNatEnabled),
\* setDdnsSettings, setQosDiscipline and addQosRule holds the complete field set
\* of the target form; a field whose option was left out is never absent.
C4_PostBodyHoldsCompleteForm ==
    \A c \in Calls :
        HasPosted(calls[c]) => FormFieldsOf(calls[c].core) \subseteq DOMAIN calls[c].body

\* The public write methods that answer with { success, message }.
WriteMethods ==
    (WriteOps \ {"restart"})
    \cup {"setWifiEnabled", "setWifiSsid", "setWifiPassword", "setWifiChannel",
          "setLanIpAddress", "setDhcpEnabled", "setDhcpPool", "setPppoeCredentials",
          "setNatEnabled", "blockDevice", "allowDevice", "enableDdns", "disableDdns"}

\* The caller's value is one the method's validation refuses.
RefusedInput(op, a) ==
    \/ op \in {"setWifiSettings", "setWifiPassword"} /\ Has(a, "password")
            /\ (Len(a["password"]) < 8 \/ Len(a["password"]) > 63)
    \/ op = "setWifiSsid" /\ Len(a["ssid"]) \notin 1..32
    \/ op = "setWifiChannel" /\ a["channel"] \notin 0..14
    \/ op = "setLanIpAddress" /\ ~ipRegexTest(a["ipAddress"])
    \/ op = "setDhcpPool" /\ a["poolSize"] \notin 1..254
    \/ op = "setPppoeCredentials" /\ "" \in {a["username"], a["password"]}
    \/ op \in {"setMacFilter", "blockDevice", "allowDevice"} /\ ~macRegexTest(a["macAddress"])
    \/ op = "setAdminPassword" /\ a["newPassword"] = ""

\* Answers with which a GET fails: the promise rejects (no answer, 5xx) or
\* the device says the session is gone (401, 403).
FailedGetOutcomes == {"timeout", "s500", "s401", "s403"}

\* The current-settings fetch of the write failed.
FetchFailed(call) == call.core \in FetchFirstWrites /\ call.seen \cap FailedGetOutcomes # {}

FailedResult(call) ==
    /\ call.result.kind = "result"
    /\ call.result.success = FALSE
    /\ call.result.message # ""

C6_NoSuccessOnExpiredPost ==
    \A c \in Calls :
        (calls[c].pc = "done" /\ calls[c].posted \cap SessionExpiredOutcomes # {})
        => calls[c].result.success = FALSE

\* The call ended in the session-expired error.
EndedSessionExpired(call) ==
    /\ call.pc = "done"
    /\ call.result.kind \in {"throw", "result"}
    /\ call.result.success = FALSE
    /\ call.result.message = "Session expired"

\* C7: once a GET of an operation was answered with 401 or 403, the operation has
\* ended in the session-expired error and has issued no request after that answer.
C7_NoRequestAfterExpiredGet ==
    \A c \in Calls :
        Expired(calls[c]) => calls[c].late = 0 /\ EndedSessionExpired(calls[c])

\* C8: an operation one of whose GETs was redirected to the login page ends in the
\* session-expired error; it returns no snapshot.
C8_LoginRedirectIsSessionExpired ==
    \A c \in Calls :
        "redirLogin" \in calls[c].seen => EndedSessionExpired(calls[c])

\* C9: a read one of whose GETs got a non-2xx status other than 401/403, or no
\* answer at all, ends in an error, not a snapshot, after one request per page.
C9_ReadFailsOnTransportError ==
    \A c \in Calls :
        LET call == calls[c]
        IN  (call.core \in SingleReads \cup AllReads
                /\ call.seen \cap {"s404", "s500", "timeout"} # {})
            => /\ call.pc = "done"
               /\ call.result.kind = "throw"
               /\ call.gets = Cardinality(FetchPaths(call.core))

\* Something went wrong that the write has to report.
WriteFailed(call) ==
    \/ RefusedInput(call.op, call.args)
    \/ FetchFailed(call)
    \/ call.posted \cap {"timeout", "s500"} # {}

ConcurrentInvocations ==
    [op : {"setWifiSsid"}, args : {"ssid" :> "A"}]
    \cup [op : {"setWifiChannel"}, args : {"channel" :> 6}]
    \cup [op : {"setLanSettings"}, args : {"ipAddress" :> "10.0.0.1"}]
    \cup [op : {"getWirelessSettings"}, args : {EmptyForm}]

ConcurrentNext ==
    \E c \in Calls :
        \/ \E inv \in ConcurrentInvocations : Invoke(c, inv)
        \/ \E path \in {WIRELESS, LAN}, outcome \in Outcomes : WriteFetched(c, path, outcome)
        \/ \E outcome \in Outcomes : ReadFetched(c, WIRELESS, outcome)
        \/ \E outcome \in Outcomes : Posted(c, outcome)
        \/ Return(c)

ConcurrentSpec == Init /\ [][ConcurrentNext]_vars

\* The call is between the start of its current-settings fetch and the
\* completion of its POST.
InWriteWindow(call) == call.core \in WriteOps /\ call.pc \in {"get", "post"}

\* The call is a read with a fetch in flight.
InReadFetch(call) == call.core \in SingleReads \cup AllReads /\ call.pc = "get"

\* Both calls of the scenario have completed with success, the device having
\* answered every request of theirs with 200, and neither result has been
\* taken yet.
BothApplied ==
    /\ {calls[c].op : c \in Calls} = {"setWifiSsid", "setWifiChannel"}
    /\ \A c \in Calls :
        /\ calls[c].pc = "done"
        /\ calls[c].result.success
        /\ calls[c].seen = {"ok"}
        /\ calls[c].posted = {"ok"}

\* C11: when setWifiSsid('A') and setWifiChannel(6) have both completed with
\* success on the same session, whatever the interleaving of their fetches and
\* POSTs, the device has ssid A and channel 6.
C11_ConcurrentWritesBothApplied ==
    BothApplied =>
        /\ device[WIRELESS]["ESSID"] = "A"
        /\ device[WIRELESS]["Channel_ID"] = "6"

\* C12: no two calls are inside their write window at the same time, and no
\* read has a fetch in flight while another call is inside its write window.
C12_WriteWindowsExclusive ==
    \A c1, c2 \in Calls :
        (c1 # c2 /\ InWriteWindow(calls[c1]))
            => ~(InWriteWindow(calls[c2]) \/ InReadFetch(calls[c2]))

(***************************************************************************)
(* Validation boundaries                                                   *)
(*                                                                         *)
(* The write methods called with values on both sides of each limit.       *)
(***************************************************************************)
\* 'x'.repeat(n): a string of n characters
RECURSIVE Repeat(_, _)
Repeat(ch, n) == IF n = 0 THEN "" ELSE ch \o Repeat(ch, n - 1)

\* MAC addresses in the forms the callers may type them.
MacInputs ==
    {Chars("a", "8", ":"), Chars("D", "4", ":"), Chars("d", "4", "-"),
     <<"a", "8", ":", "a", "8", "-", "a", "8", ":", "a", "8", "-", "a", "8", ":", "a", "8">>,
     Chars("g", "8", ":"), <<"a", "8", ":", "a", "8">>, <<>>}

BoundaryInvocations ==
    [op : {"setWifiSsid"},
     args : {"ssid" :> Repeat("s", n) : n \in {0, 1, 32, 33}}]
    \cup [op : {"setWifiPassword"},
          args : {"password" :> Repeat("p", n) : n \in {7, 8, 63, 64}}]
    \cup [op : {"setWifiChannel"},
          args : {"channel" :> n : n \in {-1, 0, 14, 15}}]
    \cup [op : {"setWifiSettings"},
          args : {"ssid" :> Repeat("s", n) : n \in {0, 1, 32, 33}}
                 \cup {"password" :> Repeat("p", n) : n \in {7, 8, 63, 64}}
                 \cup {"channel" :> n : n \in {-1, 0, 14, 15}}]
    \cup [op : {"addQosRule"},
          args : {("protocol" :> "TCP") @@ ("priority" :> n) : n \in {-1, 0, 7, 8}}]
    \cup [op : {"setMacFilter"},
          args : {("macAddress" :> m) @@ ("action" :> "block") : m \in MacInputs}]
    \cup [op : {"blockDevice", "allowDevice"},
          args : {"macAddress" :> m : m \in MacInputs}]

BoundaryNext ==
    \E c \in SequentialCalls :
        \/ \E inv \in BoundaryInvocations : Invoke(c, inv)
        \/ \E outcome \in Outcomes : WriteFetched(c, WIRELESS, outcome)
        \/ \E outcome \in Outcomes : Posted(c, outcome)
        \/ Return(c)

BoundarySpec == Init /\ [][BoundaryNext]_vars

\* The call was refused: it has sent no POST and never will, and its result
\* is { success: false, message }.
Refused(call) ==
    /\ call.posts = 0
    /\ call.pc # "post"
    /\ call.pc = "done" => FailedResult(call)

\* The call has its current settings (or needs none) and is past its validation.
PastValidation(call) ==
    /\ call.pc \in {"post", "done"}
    /\ call.core \in FetchFirstWrites => call.seen = {"ok"}

\* The call was accepted: once past its validation it has sent its POST.
Accepted(call) == PastValidation(call) => call.posts = 1

\* The call changes the option `k` of the WiFi settings through `wrapper` or
\* through setWifiSettings itself.
ChangesWifi(call, k, wrapper) ==
    call.op \in {wrapper, "setWifiSettings"} /\ Has(call.args, k)

\* C13: setWifiSsid and setWifiSettings({ssid}) refuse an SSID of length 0 or 33
\* (failed result, no POST) and accept one of length 1 or 32.
C13_SsidLengthBoundary ==
    \A c \in Calls :
        LET call == calls[c]
        IN  ChangesWifi(call, "ssid", "setWifiSsid")
            => /\ Len(call.args["ssid"]) \in {0, 33} => Refused(call)
               /\ Len(call.args["ssid"]) \in {1, 32} => Accepted(call)

\* C14: setWifiPassword and setWifiSettings({password}) refuse a password of
\* length 7 or 64 (failed result, no POST) and accept one of length 8 or 63.
C14_PasswordLengthBoundary ==
    \A c \in Calls :
        LET call == calls[c]
        IN  ChangesWifi(call, "password", "setWifiPassword")
            => /\ Len(call.args["password"]) \in {7, 64} => Refused(call)
               /\ Len(call.args["password"]) \in {8, 63} => Accepted(call)

\* C14 happens: the settings were fetched, a password of 64 characters was
\* refused and nothing was posted.
C14_Witness ==
    \E c \in Calls :
        /\ ChangesWifi(calls[c], "password", "setWifiPassword")
        /\ Len(calls[c].args["password"]) = 64
        /\ calls[c].pc = "done" /\ calls[c].seen = {"ok"}
        /\ calls[c].posts = 0 /\ FailedResult(calls[c])

\* C15: setWifiChannel and setWifiSettings({channel}) refuse channel -1 and 15
\* (failed result, no POST) and accept channel 0 and 14.
C15_ChannelBoundary ==
    \A c \in Calls :
        LET call == calls[c]
        IN  ChangesWifi(call, "channel", "setWifiChannel")
            => /\ call.args["channel"] \in {-1, 15} => Refused(call)
               /\ call.args["channel"] \in {0, 14} => Accepted(call)

\* C16: addQosRule refuses priority -1 and 8 (failed result, no POST) and
\* accepts priority 0 and 7.
C16_QosPriorityBoundary ==
    \A c \in Calls :
        LET call == calls[c]
        IN  (call.op = "addQosRule" /\ Has(call.args, "priority"))
            => /\ call.args["priority"] \in {-1, 8} => Refused(call)
               /\ call.args["priority"] \in {0, 7} => Accepted(call)

\* XX:XX:XX:XX:XX:XX: six groups of two hexadecimal digits separated by colons
HexColonForm(mac) ==
    /\ Len(mac) = 17
    /\ \A i \in 1..17 : IF i % 3 = 0 THEN mac[i] = ":" ELSE mac[i] \in HexDigits

\* C17: setMacFilter, blockDevice and allowDevice send a POST only for a MAC
\* address in hex-colon form; for any other string they return success=false
\* and send nothing.
C17_MacFilterOnlyHexColon ==
    \A c \in Calls :
        LET call == calls[c]
        IN  (call.op \in {"setMacFilter", "blockDevice", "allowDevice"}
                /\ ~HexColonForm(call.args["macAddress"]))
            => Refused(call)

(***************************************************************************)
(* Session lifecycle: requests to the routes                               *)
(***************************************************************************)
\* The browser sends a request; it carries the cookie the browser holds.
SendRequest(h, route, input) ==
    /\ handlers[h].pc = "idle"
    /\ nreqs < MaxRequests
    /\ nreqs' = nreqs + 1
    /\ handlers' = [handlers EXCEPT ![h] =
            [IdleHandler EXCEPT !.pc = "start", !.route = route, !.input = input,
                                !.cookie = browser, !.sentAfter = storeEvent]]
    /\ UNCHANGED <<adapterVars, agentVars, browser, router, storeEvent>>

\* The login route answers.  A login the device answers with a page gets a
\* session of its own; answered with a 5xx page the session is one the device
\* never accepts.
Login(h, outcome) ==
    /\ handlers[h].pc = "start" /\ handlers[h].route = "login"
    /\ outcome \in LoginAnswers(handlers[h].input)
    /\ LET saves == handlers[h].input # "missing" /\ loginAndSaveSession(outcome).saved
           sid == router.issued + 1
       IN  /\ saves => router.issued < MaxLogins
           /\ handlers' = [handlers EXCEPT ![h] = LoginHandled(@, outcome, sid)]
           /\ router' = IF ~saves THEN router
                        ELSE [accepted |-> router.accepted
                                           \cup (IF outcome = "ok" THEN {sid} ELSE {}),
                              issued |-> sid]
    /\ UNCHANGED <<adapterVars, agentVars, browser, nreqs, storeEvent>>

Logout(h) ==
    /\ handlers[h].pc = "start" /\ handlers[h].route = "logout"
    /\ handlers' = [handlers EXCEPT ![h] = LogoutHandled(@)]
    /\ UNCHANGED <<adapterVars, agentVars, browser, router, nreqs, storeEvent>>

AuthCheck(h) ==
    /\ handlers[h].pc = "start" /\ handlers[h].route = "authCheck"
    /\ handlers' = [handlers EXCEPT ![h] = AuthCheckHandled(@)]
    /\ UNCHANGED <<adapterVars, agentVars, browser, router, nreqs, storeEvent>>

BuildAdapter(h) ==
    /\ handlers[h].pc = "start" /\ handlers[h].route \in AdapterRoutes
    /\ handlers' = [handlers EXCEPT ![h] = AdapterBuilt(@)]
    /\ UNCHANGED <<adapterVars, agentVars, browser, router, nreqs, storeEvent>>

\* A tool of the chat agent, or the page loop of the fetch-settings route,
\* has the adapter send a request.
AdapterRequest(h) ==
    /\ handlers[h].pc = "adapter"
    /\ handlers[h].ops < MaxOps
    /\ handlers' = [handlers EXCEPT ![h] = AdapterRequested(@, router.accepted)]
    /\ UNCHANGED <<adapterVars, agentVars, browser, router, nreqs, storeEvent>>

\* The stream of the chat route ends; the fetch-settings route has fetched
\* every page, failures included, and answers.
AdapterDone(h) ==
    /\ handlers[h].pc = "adapter"
    /\ handlers[h].route = "fetchSettings" => handlers[h].ops = MaxOps
    /\ handlers' = [handlers EXCEPT ![h] = Respond(@, 200)]
    /\ UNCHANGED <<adapterVars, agentVars, browser, router, nreqs, storeEvent>>

GetValidSession(h) ==
    /\ handlers[h].pc = "start" /\ handlers[h].route = "getValidSession"
    /\ handlers' = [handlers EXCEPT ![h] = GetValidSessionStarted(@)]
    /\ UNCHANGED <<adapterVars, agentVars, browser, router, nreqs, storeEvent>>

Probed(h, outcome) ==
    /\ handlers[h].pc = "probe"
    /\ outcome \in ProbeAnswers(handlers[h].session.sessionId \in router.accepted)
    /\ handlers' = [handlers EXCEPT ![h] = GetValidSessionProbed(@, outcome)]
    /\ UNCHANGED <<adapterVars, agentVars, browser, router, nreqs, storeEvent>>

\* The response reaches the browser: a cookie the handler set or deleted
\* replaces the browser's.
Deliver(h) ==
    /\ handlers[h].pc = "respond"
    /\ browser' = IF handlers[h].changed = "none" THEN browser ELSE handlers[h].cookie
    /\ storeEvent' = IF handlers[h].changed = "none" THEN storeEvent
                     ELSE handlers[h].changed
    /\ handlers' = [handlers EXCEPT ![h] = IdleHandler]
    /\ UNCHANGED <<adapterVars, agentVars, router, nreqs>>

\* The device drops a session (idle timeout, reboot).
ExpireSession(sid) ==
    /\ sid \in router.accepted
    /\ router' = [router EXCEPT !.accepted = @ \ {sid}]
    /\ UNCHANGED <<adapterVars, agentVars, browser, handlers, nreqs, storeEvent>>

SessionNext ==
    \/ \E h \in Handlers, route \in Routes :
            \E input \in (IF route = "login" THEN Credentials ELSE {""}) :
                SendRequest(h, route, input)
    \/ \E h \in Handlers, outcome \in LoginOutcomes : Login(h, outcome)
    \/ \E h \in Handlers : Logout(h)
    \/ \E h \in Handlers : AuthCheck(h)
    \/ \E h \in Handlers : BuildAdapter(h)
    \/ \E h \in Handlers : AdapterRequest(h)
    \/ \E h \in Handlers : AdapterDone(h)
    \/ \E h \in Handlers : GetValidSession(h)
    \/ \E h \in Handlers, outcome \in ProbeOutcomes : Probed(h, outcome)
    \/ \E h \in Handlers : Deliver(h)
    \/ \E sid \in SessionIds : ExpireSession(sid)

SessionSpec == Init /\ [][SessionNext]_vars

\* C18: a route handler that builds an adapter from the stored session has
\* run the validation probe on that session before its adapter sends the
\* first request to the device.
C18_SessionProbedBeforeFirstOperation ==
    \A h \in Handlers :
        (handlers[h].route \in AdapterRoutes /\ handlers[h].ops > 0)
            => handlers[h].probed

\* C19: the probe, which follows no redirect, finds the session invalid when
\* the root page answers 401, 403 or a 3xx whose Location contains 'login', and
\* valid when it answers 200.
C19_ProbeClassification ==
    \A h \in Handlers :
        handlers[h].probed
            => /\ handlers[h].probe \in {"s401", "s403", "redirLogin"} => ~handlers[h].isValid
               /\ handlers[h].probe = "ok" => handlers[h].isValid

\* C19 happens: the device redirected the probe to its login page and the
\* session was found invalid.
C19_Witness ==
    \E h \in Handlers :
        /\ handlers[h].probed /\ handlers[h].probe = "redirLogin"
        /\ ~handlers[h].isValid /\ handlers[h].value = NoSession

\* The cookie was last changed by a logout or by a revalidation that failed.
Destroyed(event) == event \in {"loggedOut", "revalidationFailed"}

\* The handlers that call getSession, once they are past that call.
PastGetSession(handler) ==
    /\ handler.route \in {"authCheck", "chat", "fetchSettings", "getValidSession"}
    /\ handler.pc \in {"probe", "adapter", "respond"}

\* C20: after a failed revalidation or a logout the stored session is gone,
\* and getSession returns null to every request made from then on, until a
\* login succeeds and saves a new session.
C20_SessionDestroyedUntilNewLogin ==
    /\ Destroyed(storeEvent) => browser = NoSession
    /\ \A h \in Handlers :
        (Destroyed(handlers[h].sentAfter) /\ PastGetSession(handlers[h]))
            => /\ handlers[h].session = NoSession
               /\ handlers[h].pc = "respond"
               /\ handlers[h].ops = 0

\* C20 happens: a session was issued, its revalidation failed, and the chat
\* route called afterwards found no session and answered 401.
C20_Witness ==
    /\ storeEvent = "revalidationFailed" /\ router.issued > 0
    /\ \E h \in Handlers :
        /\ handlers[h].route = "chat" /\ handlers[h].sentAfter = "revalidationFailed"
        /\ handlers[h].pc = "respond" /\ handlers[h].status = 401

\* The login call has answered.
LoginAnswered(handler, outcome) ==
    handler.route = "login" /\ handler.pc = "respond" /\ handler.answer = outcome

\* C21: a login the router answers with 401 fails with 'Invalid credentials',
\* stores no session, and leaves no session retrievable, whatever was stored
\* before.
C21_InvalidCredentialsUnauthenticated ==
    \A h \in Handlers :
        LoginAnswered(handlers[h], "s401")
            => /\ handlers[h].status = 401
               /\ handlers[h].message = "Invalid credentials"
               /\ handlers[h].changed # "saved"
               /\ getSession(handlers[h].cookie) = NoSession

\* C28: a login stores a session and reports success only when the router
\* answered the navigation with a 2xx status; after an error status, a missing
\* response or a timeout it stores nothing and reports failure.
C28_SessionSavedOnlyOnSuccessStatus ==
    \A h \in Handlers :
        (handlers[h].route = "login" /\ handlers[h].pc = "respond"
            /\ handlers[h].answer \in LoginOutcomes)
            => IF handlers[h].answer = "ok"
               THEN handlers[h].changed = "saved" /\ handlers[h].status = 200
               ELSE handlers[h].changed = "none" /\ handlers[h].status # 200

\* C29: getValidSession deletes the stored session only when the device
\* reported it invalid (401, 403 or a redirect to login); after a transport
\* error or another status the session stays stored.
C29_SessionKeptOnTransportError ==
    \A h \in Handlers :
        (handlers[h].probed /\ handlers[h].probe \notin {"s401", "s403", "redirLogin"})
            => /\ handlers[h].changed = "none"
               /\ getSession(handlers[h].cookie) = handlers[h].session

(***************************************************************************)
(* Reads: pages of any content                                             *)
(***************************************************************************)
\* Counter texts a statistics page may show.
CounterTexts ==
    {<<"1", "2", ",", "3", "4", "5">>, <<"1", "2", "3", "4", "5">>, <<"7">>,
     <<"-", "-">>}

\* What a page may show when it is fetched.  A statistics page shows counters of
\* any of the texts above; the lease table may be empty; any other page shows
\* what the device holds.
PagesShown(dev, path) ==
    CASE path = STATSLAN ->
            {[ports |-> <<[port |-> "LAN1", values |-> <<<<"U", "p">>, t, u, <<"7">>, t>>],
                          [port |-> "LAN2", values |-> <<<<"U", "p">>, <<"7">>, t, u>>],
                          [port |-> "LAN3",
                           values |-> <<<<"U", "p">>, <<"7">>, u, <<"7">>, t>>]>>] :
                t \in CounterTexts, u \in {<<"7">>, <<"1", ",", "0", "0", "0">>}}
      [] path = STATSWLAN ->
            {[cells |-> ("Tx Frames Count" :> t) @@ ("Rx Frames Count" :> <<"7">>)
                            @@ ("Tx Errors Count" :> t) @@ ("Rx Errors Count" :> <<"7">>)
                            @@ ("Rx Drops Count" :> t)] : t \in CounterTexts}
      [] path = STATSADSL ->
            {[cells |-> ("Received Blocks" :> t) @@ ("Transmitted Blocks" :> <<"7">>)
                            @@ ("CRC Errors" :> t)] : t \in CounterTexts}
      [] path = DHCPINFO -> {StatusContent[DHCPINFO], [tableData |-> <<>>]}
      [] OTHER -> {Content(dev, path)}

ReadOps == SingleReads \cup AllReads \cup StatsReads

ReadInvocations == [op : ReadOps, args : {EmptyForm}]

\* The device answers a GET with a page of another layout (status 200, none of
\* the fields of the page), besides the answers of Outcomes.
ReadOutcomes == {"ok", "blank", "s404", "redirLogin", "timeout"}

\* One of the GETs of a read settles.
PageFetched(c, path, outcome, content) ==
    /\ calls[c].pc = "get"
    /\ calls[c].core \in ReadOps
    /\ path \in calls[c].pending
    /\ content \in PagesShown(device, path)
    /\ calls' = [calls EXCEPT ![c] =
            ReadAfterShown([calls[c] EXCEPT !.seen = @ \cup {outcome}], path,
                           fetchPage(outcome), content)]
    /\ UNCHANGED <<device, ncalls, sessionVars, agentVars>>

ReadPaths == UNION {FetchPaths(op) : op \in ReadOps}

ReadNext ==
    \E c \in SequentialCalls :
        \/ \E inv \in ReadInvocations : Invoke(c, inv)
        \/ \E path \in ReadPaths, outcome \in ReadOutcomes :
                \E content \in PagesShown(device, path) :
                    PageFetched(c, path, outcome, content)
        \/ Return(c)

ReadSpec == Init /\ [][ReadNext]_vars

\* The string fields of the snapshot of each read.
StringFields(op, value) ==
    LET Of(rec, names) == {rec[n] : n \in names \cap DOMAIN rec}
    IN  CASE op = "getWirelessSettings" -> Of(value, {"ssid", "channel", "security"})
          [] op = "getFullStatus" ->
                Of(value.device, DOMAIN value.device \ {"dhcpEnabled"})
                    \cup Of(value.wan, DOMAIN value.wan)
                    \cup Of(value.wifi, {"ssid", "securityType", "channel", "noise"})
                    \cup Of(value.dsl, DOMAIN value.dsl)
          [] OTHER -> {}

\* The keys the snapshot type of each read declares.
DeclaredFields(op) ==
    CASE op = "getWirelessSettings" -> {"ssid", "enabled", "channel", "security", "hiddenSsid"}
      [] op = "getFullStatus" -> {"device", "wan", "wifi", "dsl"}
      [] op = "getLanStats" -> {"totalPacketsSent", "totalPacketsReceived", "ports"}
      [] op = "getWlanStats" ->
            {"packetsSent", "packetsReceived", "bytesSent", "bytesReceived", "errors",
             "dropped"}
      [] op = "getAdslStats" ->
            {"receivedBlocks", "transmittedBlocks", "cellDefect", "crcErrors",
             "headerErrors"}
      [] OTHER -> {}

\* The read is over and every page it fetched came with status 200 and none of
\* the fields of the page.
ReadBlankPages(call) ==
    call.pc = "done" /\ call.core \in ReadOps /\ call.seen = {"blank"}

\* C22: every read given pages (status 200) on which none of its fields can be
\* located returns, without throwing, a snapshot with every declared field, and no
\* string field of it is the empty string.
C22_BlankPageSnapshotHoldsSentinels ==
    \A c \in Calls :
        ReadBlankPages(calls[c])
            => /\ calls[c].result.kind = "value"
               /\ DeclaredFields(calls[c].core) \subseteq DOMAIN calls[c].result.value
               /\ "" \notin StringFields(calls[c].core, calls[c].result.value)

\* The integer a counter text stands for once its thousands separators are gone;
\* 0 when what is left is not a number.
SeparatorFree(cs) ==
    LET digits == SelectSeq(cs, LAMBDA ch : ch # ",")
    IN  IF digits # <<>> /\ \A i \in 1..Len(digits) : digits[i] \in Digits
        THEN DecimalValue(digits) ELSE 0

RECURSIVE SumOfCounters(_, _)
SumOfCounters(blocks, n) ==
    IF blocks = <<>> THEN 0
    ELSE SeparatorFree(Head(blocks).values[n]) + SumOfCounters(Tail(blocks), n)

CellText(content, label) == Field(Field(content, "cells", EmptyForm), label, <<>>)

\* C23: every numeric snapshot field (LAN per-port counters and totals, WLAN and
\* ADSL counters) is the integer its source text stands for without its thousands
\* separators ("12,345" gives 12345), and 0 when the text is not a number.
C23_CountersIgnoreThousandsSeparators ==
    \A c \in Calls :
        LET call == calls[c]
            v == call.result.value
        IN  (call.pc = "done" /\ call.core \in StatsReads /\ call.seen = {"ok"})
                => CASE call.core = "getLanStats" ->
                            LET src == SelectSeq(call.bodies[STATSLAN].ports,
                                                 LAMBDA block : Len(block.values) >= 5)
                            IN  /\ Len(v.ports) = Len(src)
                                /\ \A i \in 1..Len(src) :
                                    /\ v.ports[i].bytesReceived = SeparatorFree(src[i].values[2])
                                    /\ v.ports[i].packetsReceived = SeparatorFree(src[i].values[3])
                                    /\ v.ports[i].bytesSent = SeparatorFree(src[i].values[4])
                                    /\ v.ports[i].packetsSent = SeparatorFree(src[i].values[5])
                                /\ v.totalPacketsReceived = SumOfCounters(src, 3)
                                /\ v.totalPacketsSent = SumOfCounters(src, 5)
                     [] call.core = "getWlanStats" ->
                            LET page == call.bodies[STATSWLAN]
                            IN  /\ v.packetsSent = SeparatorFree(CellText(page, "Tx Frames Count"))
                                /\ v.packetsReceived =
                                        SeparatorFree(CellText(page, "Rx Frames Count"))
                                /\ v.errors = SeparatorFree(CellText(page, "Tx Errors Count"))
                                        + SeparatorFree(CellText(page, "Rx Errors Count"))
                                /\ v.dropped = SeparatorFree(CellText(page, "Tx Drops Count"))
                                        + SeparatorFree(CellText(page, "Rx Drops Count"))
                     [] OTHER ->
                            LET page == call.bodies[STATSADSL]
                            IN  /\ v.receivedBlocks =
                                        SeparatorFree(CellText(page, "Received Blocks"))
                                /\ v.transmittedBlocks =
                                        SeparatorFree(CellText(page, "Transmitted Blocks"))
                                /\ v.cellDefect = SeparatorFree(CellText(page, "Cell Delineation"))
                                /\ v.crcErrors = SeparatorFree(CellText(page, "CRC Errors"))
                                /\ v.headerErrors = SeparatorFree(CellText(page, "Header Errors"))

\* The read of the connected devices is over and both tables came as pages.
JoinedTables(call) ==
    call.pc = "done" /\ call.core = "getConnectedDevices" /\ call.seen = {"ok"}

\* C24: getConnectedDevices returns one entry per ARP entry, in ARP order, with
\* the ip and mac of that entry; the hostname is that of a DHCP lease whose MAC is
\* the ARP MAC up to letter case, and 'Unknown' when no lease has that MAC.
C24_ConnectedDevicesJoinArpWithLeases ==
    \A c \in Calls :
        LET call == calls[c]
            arp == getArpTable(call.bodies[ARP])
            leases == getDhcpLeases(call.bodies[DHCPINFO])
            v == call.result.value
            SameMac(a, b) == toLowerCase(a) = toLowerCase(b)
        IN  JoinedTables(call)
                => /\ Len(v) = Len(arp)
                   /\ \A i \in 1..Len(arp) :
                        /\ v[i].ip = arp[i].ip
                        /\ v[i].mac = arp[i].mac
                        /\ IF \E j \in 1..Len(leases) : SameMac(leases[j].mac, arp[i].mac)
                           THEN \E j \in 1..Len(leases) :
                                    /\ SameMac(leases[j].mac, arp[i].mac)
                                    /\ v[i].hostname = leases[j].hostname
                           ELSE v[i].hostname = "Unknown"

\* A join in which one entry took the hostname of a lease written in the other
\* letter case and another entry had no lease.
C24_Witness ==
    \E c \in Calls :
        /\ JoinedTables(calls[c])
        /\ Len(calls[c].result.value) = 3
        /\ calls[c].result.value[1].hostname = "dell-PC"
        /\ calls[c].result.value[3].hostname = "Unknown"

(***************************************************************************)
(* Order of the steps of a write                                           *)
(***************************************************************************)
\* The call ended with the refusal of its validation.
ValidationRefused(call) ==
    call.pc = "done" /\ RefusedInput(call.op, call.args) /\ FailedResult(call)

\* C26: in every write call the current settings are fetched first, the caller's
\* values are validated next and the POST comes last: a validation refusal comes
\* only after a fetch, a POST only after a fetch, and no POST follows a failed
\* fetch or a refusal.
C26_FetchThenValidateThenSubmit ==
    \A c \in Calls :
        LET call == calls[c]
        IN  call.op \in WriteMethods
            => /\ ValidationRefused(call) => call.gets > 0
               /\ HasPosted(call) => call.gets > 0
               /\ (FetchFailed(call) \/ ValidationRefused(call)) => call.posts = 0

(***************************************************************************)
(* Successive MAC filter calls                                             *)
(***************************************************************************)
FilterInvocations ==
    [op : {"blockDevice", "allowDevice"},
     args : {"macAddress" :> mac :
                mac \in {Chars("a", "8", ":"), Chars("d", "4", ":"), Chars("0", "c", "-"),
                         Chars("g", "8", ":")}}]

\* The caller awaits its first call before it makes the second, and keeps both
\* results.
FilterNext ==
    \/ \E inv \in FilterInvocations : Invoke("c1", inv)
    \/ \E inv \in FilterInvocations : calls["c1"].pc = "done" /\ Invoke("c2", inv)
    \/ \E c \in Calls, outcome \in Outcomes : Posted(c, outcome)

FilterSpec == Init /\ [][FilterNext]_vars

\* The device took the MAC rule the call submitted.
RuleWritten(call) ==
    /\ call.op \in {"blockDevice", "allowDevice"}
    /\ call.pc = "done"
    /\ call.posted = {"ok"}

\* C27: two successive blockDevice / allowDevice calls with distinct valid MAC
\* addresses submit forms with distinct RuleIndexSEL, so the second does not
\* write the slot of the first.
C27_SuccessiveMacRulesUseDistinctSlots ==
    (/\ RuleWritten(calls["c1"])
     /\ RuleWritten(calls["c2"])
     /\ toUpperCase(calls["c1"].args["macAddress"])
            # toUpperCase(calls["c2"].args["macAddress"]))
        => calls["c1"].body["RuleIndexSEL"] # calls["c2"].body["RuleIndexSEL"]

(***************************************************************************)
(* Chat agent: actions                                                     *)
(***************************************************************************)
ToolInputs ==
    [name : {"setWifiSsid"}, input : {"ssid" :> "Guest"}]
    \cup [name : {"setWifiPassword"}, input : {"password" :> "longenough"}]
    \cup [name : {"setWifiChannel"}, input : {"channel" :> 11}]
    \cup [name : {"setWifiEnabled", "setQosEnabled", "setDhcpEnabled"},
          input : {"enabled" :> FALSE}]
    \cup [name : {"addQosRule"}, input : {("protocol" :> "TCP") @@ ("priority" :> 3)}]
    \cup [name : {"addPortForwarding"},
          input : {("name" :> "web") @@ ("protocol" :> "TCP") @@ ("externalPort" :> 8080)
                      @@ ("internalIp" :> "192.168.10.7")}]
    \cup [name : {"blockDevice", "allowDevice"}, input : {"macAddress" :> Chars("a", "8", ":")}]
    \cup [name : {"setAdminPassword"}, input : {"newPassword" :> "secret"}]
    \cup [name : {"restartRouter"}, input : {EmptyForm}]

\* The tools node runs the handler of a state-changing tool.
ToolCalled(c, tool, confirm) ==
    /\ toolRun.n < MaxToolRuns
    /\ calls[c].pc = "idle"
    /\ LET h == ToolHandler(tool.name, tool.input, confirm)
       IN  /\ toolRun' = [n |-> toolRun.n + 1, name |-> tool.name, confirm |-> confirm,
                          prompted |-> h.prompted]
           /\ IF h.calls
              THEN /\ ncalls < MaxCalls
                   /\ ncalls' = ncalls + 1
                   /\ calls' = [calls EXCEPT ![c] = Started(h.inv)]
              ELSE UNCHANGED <<calls, ncalls>>
    /\ UNCHANGED <<device, sessionVars, stream>>

ToolNext ==
    \E c \in Calls :
        \/ \E tool \in ToolInputs, confirm \in BOOLEAN : ToolCalled(c, tool, confirm)
        \/ \E path \in {WIRELESS, LAN}, outcome \in {"ok", "s401", "timeout"} :
                WriteFetched(c, path, outcome)
        \/ \E outcome \in {"ok", "s401", "timeout"} : Posted(c, outcome)
        \/ Return(c)

ToolSpec == Init /\ [][ToolNext]_vars

\* C25: a state-changing tool run with confirm = false calls no adapter method
\* and sends nothing to the router (no call starts, no request is counted, the
\* device keeps its settings); an adapter call starts only in a run with
\* confirm = true.
C25_UnconfirmedToolCallsNoAdapterMethod ==
    [][/\ (toolRun'.n # toolRun.n /\ ~toolRun'.confirm)
            => (toolRun'.name \in StateChangingTools /\ toolRun'.prompted
                    /\ UNCHANGED adapterVars)
       /\ ncalls' # ncalls => (toolRun'.n # toolRun.n /\ toolRun'.confirm)]_vars

\* A tool ran without confirm after a confirmed one had called the adapter.
C25_Witness ==
    /\ toolRun.n = 2 /\ ~toolRun.confirm /\ toolRun.prompted
    /\ ncalls = 1
    /\ \E c \in Calls : calls[c].posts = 1

\* The route calls streamAgentWithEvents and takes the first event.
StreamInvoked(messages) ==
    /\ stream.pc = "idle"
    /\ stream' = StreamStarted(stream, messages)
    /\ UNCHANGED <<adapterVars, sessionVars, toolRun>>

\* The graph emits the update of its next node.
GraphChunk(output) ==
    /\ stream.pc = "graph"
    /\ stream.at # "end"
    /\ output \in NodeOutputs(stream.at, stream.rounds)
    /\ stream' = StreamChunk(stream, stream.at, output)
    /\ UNCHANGED <<adapterVars, sessionVars, toolRun>>

\* graph.stream or the iteration over it throws.
GraphThrows(message) ==
    /\ stream.pc = "graph"
    /\ stream' = StreamCaught(stream, message)
    /\ UNCHANGED <<adapterVars, sessionVars, toolRun>>

\* The graph's stream is over.
GraphEnds ==
    /\ stream.pc = "graph"
    /\ stream.at = "end"
    /\ stream' = StreamLoopOver(stream)
    /\ UNCHANGED <<adapterVars, sessionVars, toolRun>>

\* The consumer takes the next event of the content loop.
ContentYielded ==
    /\ stream.pc = "content"
    /\ stream' = StreamContent(stream)
    /\ UNCHANGED <<adapterVars, sessionVars, toolRun>>

StreamNext ==
    \/ \E messages \in MessageArrays : StreamInvoked(messages)
    \/ \E node \in DOMAIN stepDescriptions :
            \E output \in NodeOutputs(node, stream.rounds) : GraphChunk(output)
    \/ \E message \in ErrorMessages : GraphThrows(message)
    \/ GraphEnds
    \/ ContentYielded

StreamSpec == Init /\ [][StreamNext]_vars

DoneEvents(events) == {i \in 1..Len(events) : events[i].type = "done"}

\* The generator is over: it returned or it threw.
StreamOver(s) == s.pc \in {"ended", "threw"}

\* C30: every invocation of streamAgentWithEvents that is over has yielded
\* exactly one 'done' event, and that event is the last one; no invocation ever
\* yields an event after a 'done'.
C30_ExactlyOneDoneEventLast ==
    /\ DoneEvents(stream.events) \subseteq {Len(stream.events)}
    /\ StreamOver(stream) => DoneEvents(stream.events) = {Len(stream.events)}
====
